---- MODULE Spec2Model ----
(***************************************************************************)
(* Machine-name detection of build_prod_logs.py / build_prod_logs_append.py *)
(* (normalize, flex, build_machine_catalog, detect_machine_per_page).       *)
(*                                                                         *)
(* A Python str is a sequence of one-character strings.  A regular          *)
(* expression is kept as its source text (the str flex returns) and parsed  *)
(* by Compile when re.search is called, as the code does.                   *)
(***************************************************************************)
EXTENDS Integers, Sequences, FiniteSets, TLC

\* ------------------------------------------------------------------ characters

\* Printable ASCII in code-point order: 32 (space) .. 95 (_), then 97 (a) .. 126 (~).
AsciiLow ==
  << " ", "!", "\"", "#", "$", "%", "&", "'", "(", ")", "*", "+", ",", "-", ".", "/",
     "0", "1", "2", "3", "4", "5", "6", "7", "8", "9", ":", ";", "<", "=", ">", "?",
     "@", "A", "B", "C", "D", "E", "F", "G", "H", "I", "J", "K", "L", "M", "N", "O",
     "P", "Q", "R", "S", "T", "U", "V", "W", "X", "Y", "Z", "[", "\\", "]", "^", "_" >>

AsciiHigh ==
  << "a", "b", "c", "d", "e", "f", "g", "h", "i", "j", "k", "l", "m", "n", "o",
     "p", "q", "r", "s", "t", "u", "v", "w", "x", "y", "z", "{", "|", "}", "~" >>

\* The characters of the model: printable ASCII (but the grave accent), tab, newline.
Chars ==
  { AsciiLow[i] : i \in 1..Len(AsciiLow) } \cup { AsciiHigh[i] : i \in 1..Len(AsciiHigh) }
    \cup { "\t", "\n" }

\* ord(c)
Ord ==
  [ c \in Chars |->
      IF c = "\t" THEN 9
      ELSE IF c = "\n" THEN 10
      ELSE IF \E i \in 1..Len(AsciiLow) : AsciiLow[i] = c
           THEN 31 + (CHOOSE i \in 1..Len(AsciiLow) : AsciiLow[i] = c)
           ELSE 96 + (CHOOSE i \in 1..Len(AsciiHigh) : AsciiHigh[i] = c) ]

\* str.lower() on one character: 'A'..'Z' (65..90) to 'a'..'z'
LowerChar ==
  [ c \in Chars |->
      IF Ord[c] >= 65 /\ Ord[c] <= 90 THEN AsciiHigh[Ord[c] - 64] ELSE c ]

\* \s of the re module, and what str.strip() removes
IsSpace(c) == c \in { " ", "\t", "\n" }

\* \d of the re module
IsDigit(c) == c \in { "0", "1", "2", "3", "4", "5", "6", "7", "8", "9" }

\* ------------------------------------------------------------------ str helpers

\* s.lower()
Lower(s) == [ i \in 1..Len(s) |-> LowerChar[s[i]] ]

\* s.strip()
RECURSIVE LStrip(_)
LStrip(s) == IF s # << >> /\ IsSpace(Head(s)) THEN LStrip(Tail(s)) ELSE s

RECURSIVE RStrip(_)
RStrip(s) ==
  IF s # << >> /\ IsSpace(s[Len(s)]) THEN RStrip(SubSeq(s, 1, Len(s) - 1)) ELSE s

Strip(s) == RStrip(LStrip(s))

\* re.sub(r"[_\-]+", " ", s): every maximal run of '_' / '-' becomes one space
\* (the first character of a run becomes the space, the others are dropped)
IsDashUnderscore(c) == c \in { "_", "-" }

Kept(c) == c # ""

SubDashRuns(s) ==
  SelectSeq([ i \in 1..Len(s) |->
                IF IsDashUnderscore(s[i])
                THEN (IF i > 1 /\ IsDashUnderscore(s[i - 1]) THEN "" ELSE " ")
                ELSE s[i] ],
            Kept)

\* re.sub(r"\s+", " ", s): every maximal run of whitespace becomes one space
SubSpaceRuns(s) ==
  SelectSeq([ i \in 1..Len(s) |->
                IF IsSpace(s[i])
                THEN (IF i > 1 /\ IsSpace(s[i - 1]) THEN "" ELSE " ")
                ELSE s[i] ],
            Kept)

\* normalize(s), build_prod_logs.py:14-18
normalizeKeepDashes(s) == Strip(SubSpaceRuns(Lower(s)))

normalize(s) == Strip(SubSpaceRuns(SubDashRuns(Lower(s))))

\* ------------------------------------------------------------------ flex

\* re.split(r"[ \-_]+", token): the pieces between maximal runs of ' ', '-', '_'
\* (empty pieces at the ends included, as re.split returns them)
IsFlexSep(c) == c \in { " ", "-", "_" }

RECURSIVE SplitSeps(_, _, _)
SplitSeps(s, cur, inRun) ==
  IF s = << >> THEN << cur >>
  ELSE IF IsFlexSep(Head(s))
       THEN (IF inRun THEN << >> ELSE << cur >>) \o SplitSeps(Tail(s), << >>, TRUE)
       ELSE SplitSeps(Tail(s), cur \o << Head(s) >>, FALSE)

\* re.escape(p): a backslash before every character of the special set
EscapeSpecial ==
  { "(", ")", "[", "]", "{", "}", "?", "*", "+", "-", "|", "^", "$", "\\", ".",
    "&", "~", "#", " ", "\t", "\n" }

RECURSIVE Escape(_)
Escape(p) ==
  IF p = << >> THEN << >>
  ELSE (IF Head(p) \in EscapeSpecial THEN << "\\", Head(p) >> ELSE << Head(p) >>)
       \o Escape(Tail(p))

\* r"[\s\-_]*"
FlexClass == << "[", "\\", "s", "\\", "-", "_", "]", "*" >>

\* r"\s*#\s*"
HashFlex == << "\\", "s", "*", "#", "\\", "s", "*" >>

\* sep.join(parts)
RECURSIVE Join(_, _)
Join(sep, parts) ==
  IF parts = << >> THEN << >>
  ELSE IF Len(parts) = 1 THEN parts[1]
  ELSE parts[1] \o sep \o Join(sep, Tail(parts))

\* the pattern with its escaped '#' left as it is
KeepHash(p) == p

\* pattern.replace(r"\#", r"\s*#\s*"): left to right, non-overlapping
RECURSIVE ReplaceHash(_)
ReplaceHash(p) ==
  IF p = << >> THEN << >>
  ELSE IF Len(p) >= 2 /\ p[1] = "\\" /\ p[2] = "#"
       THEN HashFlex \o ReplaceHash(SubSeq(p, 3, Len(p)))
       ELSE << Head(p) >> \o ReplaceHash(Tail(p))

\* the non-empty elements of a sequence, in order
RECURSIVE NonEmpty(_)
NonEmpty(parts) ==
  IF parts = << >> THEN << >>
  ELSE (IF Head(parts) # << >> THEN << Head(parts) >> ELSE << >>)
       \o NonEmpty(Tail(parts))

\* flex(token), build_prod_logs.py:20-35
flex(token) ==
  LET t == Strip(token)
  IN  IF t = << >> THEN << >>
      ELSE LET parts     == SplitSeps(t, << >>, FALSE)
               kept      == NonEmpty(parts)
               parts_esc == [ i \in 1..Len(kept) |-> Escape(kept[i]) ]
           IN  ReplaceHash(Join(FlexClass, parts_esc))

\* ------------------------------------------------------------------ sorted()

\* Python's str "<": lexicographic by code point
RECURSIVE StrLess(_, _)
StrLess(a, b) ==
  IF b = << >> THEN FALSE
  ELSE IF a = << >> THEN TRUE
  ELSE IF Ord[Head(a)] # Ord[Head(b)] THEN Ord[Head(a)] < Ord[Head(b)]
  ELSE StrLess(Tail(a), Tail(b))

\* sorted(S) of a set of str
RECURSIVE Sorted(_)
Sorted(S) ==
  IF S = {} THEN << >>
  ELSE LET m == CHOOSE x \in S : \A y \in S \ {x} : StrLess(x, y)
       IN  << m >> \o Sorted(S \ {m})


\* ------------------------------------------------------------------ catalog

\* None (no str is this one-element sequence: every element of a str is one character)
None == << "None" >>

\* s.startswith(prefix)
StartsWith(s, prefix) ==
  Len(s) >= Len(prefix) /\ SubSeq(s, 1, Len(prefix)) = prefix

\* m = re.search(r"(\d+)$", low); m.group(1): the longest run of digits that ends
\* the string (<< >> when m is None)
RECURSIVE TrailingDigits(_)
TrailingDigits(s) ==
  IF s # << >> /\ IsDigit(s[Len(s)])
  THEN TrailingDigits(SubSeq(s, 1, Len(s) - 1)) \o << s[Len(s)] >>
  ELSE << >>

\* display_names, build_prod_logs.py:69-71
display_names ==
  << << "A", "W", "1" >>,
     << "C", "u", "t", "t", "e", "r", "1" >>,
     << "C", "u", "t", "t", "e", "r", "2" >>,
     << "D", "i", "e", "-", "c", "u", "t", "t", "e", "r" >>,
     << "J", "e", "n", "n", "e", "r", "j", "a", "h", "n" >>,
     << "P", "c", "1" >>,
     << "P", "c", "2" >>,
     << "P", "c", "3" >>,
     << "P", "c", "5" >>,
     << "S", "h", "e", "e", "t", "e", "r", "1" >>,
     << "S", "h", "e", "e", "t", "e", "r", "2" >> >>

\* CutterExtras with the number left out of the upper-case spelling
CutterExtrasNoNumber(low) ==
  LET n == TrailingDigits(low)
  IN  IF StartsWith(low, << "c", "u", "t", "t", "e", "r" >>) /\ n # << >>
      THEN { << "C", "U", "T", "T", "E", "R" >>,
             << "C", "u", "t", "t", "e", "r", " " >> \o n }
      ELSE {}

\* the variants of a name that starts with "cutter" and ends in digits n, build_prod_logs.py:80-88
CutterExtras(low) ==
  LET n == TrailingDigits(low)
  IN  IF StartsWith(low, << "c", "u", "t", "t", "e", "r" >>) /\ n # << >>
      THEN { << "C", "U", "T", "T", "E", "R", " " >> \o n,
             << "C", "U", "T", "T", "E", "R", " ", "#" >> \o n,
             << "C", "U", "T", "T", "E", "R", "_" >> \o n,
             << "C", "U", "T", "T", "E", "R", "-" >> \o n,
             << "C", "u", "t", "t", "e", "r", " " >> \o n,
             << "C", "u", "t", "t", "e", "r", " ", "#" >> \o n,
             << "C", "u", "t", "t", "e", "r", "_" >> \o n,
             << "C", "u", "t", "t", "e", "r", "-" >> \o n,
             << "C", "U", "T", "T", "E", "R", "#" >> \o n,
             << "C", "u", "t", "t", "e", "r", "#" >> \o n }
      ELSE {}

\* PcExtras with the '#' spellings of the cutter family
PcExtrasWithHash(low) ==
  LET n == TrailingDigits(low)
  IN  IF StartsWith(low, << "p", "c" >>) /\ n # << >>
      THEN { << "P", "C" >> \o n,
             << "P", "C", " " >> \o n,
             << "P", "C", " ", "#" >> \o n,
             << "P", "C", "#" >> \o n }
      ELSE {}

\* the variants of a name that starts with "pc" and ends in digits n, build_prod_logs.py:90-94
PcExtras(low) ==
  LET n == TrailingDigits(low)
  IN  IF StartsWith(low, << "p", "c" >>) /\ n # << >>
      THEN { << "P", "C" >> \o n,
             << "P", "C", " " >> \o n,
             << "P", "C", "_" >> \o n,
             << "P", "C", "-" >> \o n,
             << "P", "c" >> \o n,
             << "P", "c", " " >> \o n }
      ELSE {}

\* the variants of a name that starts with "sheeter" and ends in digits n, build_prod_logs.py:96-100
SheeterExtras(low) ==
  LET n == TrailingDigits(low)
  IN  IF StartsWith(low, << "s", "h", "e", "e", "t", "e", "r" >>) /\ n # << >>
      THEN { << "S", "H", "E", "E", "T", "E", "R" >> \o n,
             << "S", "H", "E", "E", "T", "E", "R", " " >> \o n,
             << "S", "H", "E", "E", "T", "E", "R", "_" >> \o n,
             << "S", "h", "e", "e", "t", "e", "r", " " >> \o n }
      ELSE {}

\* the variants of "die-cutter", build_prod_logs.py:102-103
DieCutterExtras(low) ==
  IF low = << "d", "i", "e", "-", "c", "u", "t", "t", "e", "r" >>
  THEN { << "D", "I", "E", "-", "C", "U", "T", "T", "E", "R" >>,
         << "D", "I", "E", " ", "C", "U", "T", "T", "E", "R" >>,
         << "D", "i", "e", " ", "C", "u", "t", "t", "e", "r" >>,
         << "D", "i", "e", "-", "C", "u", "t", "t", "e", "r" >> }
  ELSE {}

\* the variants of "aw1", build_prod_logs.py:105-106
Aw1Extras(low) ==
  IF low = << "a", "w", "1" >>
  THEN { << "A", "W", "1" >>,
         << "A", "W", " ", "1" >>,
         << "A", "W", "-", "1" >>,
         << "A", "W", "_", "1" >> }
  ELSE {}

\* the variants of "jennerjahn", build_prod_logs.py:108-109
JennerjahnExtras(low) ==
  IF low = << "j", "e", "n", "n", "e", "r", "j", "a", "h", "n" >>
  THEN { << "J", "E", "N", "N", "E", "R", "J", "A", "H", "N" >> }
  ELSE {}

\* variants[disp] before line 112: the raw (unescaped) spellings of one display name
RawVariants(disp) ==
  LET low == Lower(disp)
  IN  { disp } \cup CutterExtras(low) \cup PcExtras(low) \cup SheeterExtras(low)
        \cup DieCutterExtras(low) \cup Aw1Extras(low) \cup JennerjahnExtras(low)

\* line 112: {flex(v) for v in variants[disp] if v}
FlexedVariants(disp) == { flex(v) : v \in { w \in RawVariants(disp) : w # << >> } }

\* the elements of a sequence
Range(seq) == { seq[i] : i \in 1..Len(seq) }

\* build_machine_catalog(), build_prod_logs.py:62-116: (display_names, regex_variants)
build_machine_catalog ==
  [ display_order  |-> display_names,
    regex_variants |-> [ d \in Range(display_names) |-> Sorted(FlexedVariants(d)) ] ]


\* ------------------------------------------------------------------ re.search

\* The set of (lower-cased) characters one regex item stands for, with the index of
\* the first source character after it.  The grammar is the one flex writes:
\* \s, \<char>, a class [...] of such items, or a plain character.
RECURSIVE ClassBody(_, _, _)
ClassBody(rx, i, acc) ==
  IF i > Len(rx) THEN [ chars |-> acc, next |-> i ]
  ELSE IF rx[i] = "]" THEN [ chars |-> acc, next |-> i + 1 ]
  ELSE IF rx[i] = "\\" /\ i < Len(rx)
       THEN IF rx[i + 1] = "s"
            THEN ClassBody(rx, i + 2, acc \cup { " ", "\t", "\n" })
            ELSE ClassBody(rx, i + 2, acc \cup { LowerChar[rx[i + 1]] })
  ELSE ClassBody(rx, i + 1, acc \cup { LowerChar[rx[i]] })

Item(rx, i) ==
  IF rx[i] = "[" THEN ClassBody(rx, i + 1, {})
  ELSE IF rx[i] = "\\" /\ i < Len(rx)
       THEN IF rx[i + 1] = "s"
            THEN [ chars |-> { " ", "\t", "\n" }, next |-> i + 2 ]
            ELSE [ chars |-> { LowerChar[rx[i + 1]] }, next |-> i + 2 ]
  ELSE [ chars |-> { LowerChar[rx[i]] }, next |-> i + 1 ]

\* re.compile(rx, re.IGNORECASE): the items of the source, each with its '*' flag
RECURSIVE Compile(_, _)
Compile(rx, i) ==
  IF i > Len(rx) THEN << >>
  ELSE LET it   == Item(rx, i)
           star == it.next <= Len(rx) /\ rx[it.next] = "*"
       IN  << [ chars |-> it.chars, star |-> star ] >>
             \o Compile(rx, IF star THEN it.next + 1 ELSE it.next)

\* the compiled items k.. match a prefix of text[i..] (text already lower-cased)
RECURSIVE MatchAt(_, _, _, _)
MatchAt(items, k, text, i) ==
  IF k > Len(items) THEN TRUE
  ELSE IF items[k].star
       THEN \/ MatchAt(items, k + 1, text, i)
            \/ /\ i <= Len(text)
               /\ text[i] \in items[k].chars
               /\ MatchAt(items, k, text, i + 1)
       ELSE /\ i <= Len(text)
            /\ text[i] \in items[k].chars
            /\ MatchAt(items, k + 1, text, i + 1)

\* re.search(rx, raw, flags=re.IGNORECASE) is not None
Search(rx, raw) ==
  LET items == Compile(rx, 1)
      text  == Lower(raw)
  IN  \E start \in 1..(Len(text) + 1) : MatchAt(items, 1, text, start)

\* ------------------------------------------------------------------ fuzz.WRatio

\* rapidfuzz is a library outside the repository: its score is an input of the
\* detection.  A behaviour of the library is a record fz: score fz.hi on the pairs of
\* fz.hot, score fz.base on every other pair; it is a function of the two strings,
\* and 0 when one of them is empty.
WRatio(fz, s1, s2) ==
  IF s1 = << >> \/ s2 = << >> THEN 0
  ELSE IF << s1, s2 >> \in fz.hot THEN fz.hi
  ELSE fz.base

\* ------------------------------------------------------------------ detection

\* x is truthy ("if chosen:", "if not chosen", "if norm_txt", "x or ''")
Truthy(x) == x # None /\ x # << >>

\* regex_variants.get(disp, default)
Get(regex_variants, disp, default) ==
  IF disp \in DOMAIN regex_variants THEN regex_variants[disp] ELSE default

\* lines 134-138: some pattern of disp is found in raw
AnyPatternMatches(regex_variants, disp, raw) ==
  LET rxs == Get(regex_variants, disp, << >>)
  IN  \E j \in 1..Len(rxs) : Search(rxs[j], raw)

\* RegexPass without the "if chosen: break" of lines 139-140: the last match wins
RECURSIVE RegexPassLastWins(_, _, _, _, _)
RegexPassLastWins(display_order, regex_variants, raw, i, chosen) ==
  IF i > Len(display_order) THEN chosen
  ELSE RegexPassLastWins(display_order, regex_variants, raw, i + 1,
                         IF AnyPatternMatches(regex_variants, display_order[i], raw)
                         THEN display_order[i] ELSE chosen)

\* lines 132-140, the regex pass from the i-th display name on: chosen after the loop
RECURSIVE RegexPass(_, _, _, _, _)
RegexPass(display_order, regex_variants, raw, i, chosen) ==
  IF i > Len(display_order) THEN chosen
  ELSE LET disp == display_order[i]
           c2   == IF AnyPatternMatches(regex_variants, disp, raw) THEN disp ELSE chosen
       IN  IF Truthy(c2) THEN c2
           ELSE RegexPass(display_order, regex_variants, raw, i + 1, c2)

\* max(xs) of a non-empty set of numbers
Max(S) == CHOOSE x \in S : \A y \in S : y <= x

\* the strings the fuzzy pass compares with norm_txt for disp (line 147)
FuzzyOperands(regex_variants, disp) ==
  LET vs == Get(regex_variants, disp, << disp >>)
  IN  { normalize(vs[j]) : j \in 1..Len(vs) }

\* line 147: max(fuzz.WRatio(normalize(v), norm_txt) for v in regex_variants.get(disp, [disp]))
Score(fz, regex_variants, disp, norm_txt) ==
  Max({ WRatio(fz, v, norm_txt) : v \in FuzzyOperands(regex_variants, disp) })

\* Better with ">=": the last of the names that tie replaces the best
BetterOrEqual(score, best_score) == score >= best_score

\* line 148: a later name replaces the best only when "score > best_score"
Better(score, best_score) == score > best_score

\* lines 144-149, the fuzzy loop from the i-th display name on: (best_disp, best_score)
RECURSIVE FuzzyBest(_, _, _, _, _, _)
FuzzyBest(fz, display_order, regex_variants, norm_txt, i, best) ==
  IF i > Len(display_order) THEN best
  ELSE LET disp  == display_order[i]
           score == Score(fz, regex_variants, disp, norm_txt)
       IN  FuzzyBest(fz, display_order, regex_variants, norm_txt, i + 1,
                     IF Better(score, best.score)
                     THEN [ disp |-> disp, score |-> score ] ELSE best)

\* Accept with ">": a score equal to the threshold is rejected
AcceptStrict(best_score, fuzzy_threshold) == best_score > fuzzy_threshold

\* Accept with "if best_score and best_score >= fuzzy_threshold": a score of 0 never
\* qualifies
AcceptNonZero(best_score, fuzzy_threshold) ==
  best_score # 0 /\ best_score >= fuzzy_threshold

\* Accept with the threshold clamped to the scale: "best_score >= min(fuzzy_threshold, 100)"
AcceptClamped(best_score, fuzzy_threshold) ==
  best_score >= (IF fuzzy_threshold > 100 THEN 100 ELSE fuzzy_threshold)

\* line 151: the threshold test
Accept(best_score, fuzzy_threshold) == best_score >= fuzzy_threshold

\* FuzzyRuns without "not chosen": the fuzzy pass also runs after a regex hit
FuzzyRunsAfterHit(chosen, norm_txt) == Truthy(norm_txt)

\* FuzzyRuns without "and norm_txt": the fuzzy pass also runs on a page without text
FuzzyRunsOnBlank(chosen, norm_txt) == ~Truthy(chosen)

\* line 143: the fuzzy pass runs
FuzzyRuns(chosen, norm_txt) == ~Truthy(chosen) /\ Truthy(norm_txt)

\* line 128: raw = page_text[pg] or ""
Raw(text) == IF Truthy(text) THEN text ELSE << >>

\* line 127: sorted(page_text.keys())
RECURSIVE SortedKeys(_)
SortedKeys(keys) ==
  IF keys = {} THEN << >>
  ELSE LET k == CHOOSE x \in keys : \A y \in keys : x <= y
       IN  << k >> \o SortedKeys(keys \ { k })

\* chosen kept from the page before: "chosen = None" set once, before the loop
CarryChosen(prev) == prev

\* line 132: chosen = None, at the start of every page
ResetChosen(prev) == None

\* lines 127-140, the pages in ascending order: page -> chosen after the regex
\* pass; prev is chosen as the page before left it
RECURSIVE RegexLoop(_, _, _, _, _)
RegexLoop(pages, prev, page_text, display_order, regex_variants) ==
  IF pages = << >> THEN << >>
  ELSE LET pg     == Head(pages)
           chosen == RegexPass(display_order, regex_variants, Raw(page_text[pg]), 1,
                               ResetChosen(prev))
       IN  ( pg :> chosen )
             @@ RegexLoop(Tail(pages), chosen, page_text, display_order, regex_variants)

\* lines 131-140 on every page: page -> chosen after the regex pass
regex_stage(page_text, display_order, regex_variants) ==
  RegexLoop(SortedKeys(DOMAIN page_text), None, page_text, display_order, regex_variants)

\* lines 129 and 144-149: (best_disp, best_score) of the fuzzy pass on one page text
FuzzyPass(fz, text, display_order, regex_variants) ==
  FuzzyBest(fz, display_order, regex_variants, normalize(Raw(text)), 1,
            [ disp |-> None, score |-> -1 ])

\* lines 142-152, one page: chosen at line 154, from chosen after the regex pass
FuzzyFallback(fz, chosen, text, display_order, regex_variants, fuzzy_threshold) ==
  IF FuzzyRuns(chosen, normalize(Raw(text)))
  THEN LET best == FuzzyPass(fz, text, display_order, regex_variants)
       IN  IF Accept(best.score, fuzzy_threshold) THEN best.disp ELSE chosen
  ELSE chosen

\* Assigned without the test: every page is entered, matched or not
AssignedAlways(chosen) == TRUE

\* Assigned with the test "chosen != ''": None is entered as well
AssignedUnlessEmpty(chosen) == chosen # << >>

\* line 154: "if chosen:" the page is entered in page_to_machine
Assigned(chosen) == Truthy(chosen)

\* lines 142-159 on every page, from the outcome rs of the regex pass
fuzzy_stage(fz, rs, page_text, display_order, regex_variants, fuzzy_threshold) ==
  LET chosen == [ pg \in DOMAIN page_text |->
                    FuzzyFallback(fz, rs[pg], page_text[pg], display_order,
                                  regex_variants, fuzzy_threshold) ]
  IN  [ pg \in { p \in DOMAIN page_text : Assigned(chosen[p]) } |-> chosen[pg] ]

\* line 150, dbg("FUZZY best=... score=..."): the pages that reach the fuzzy pass,
\* each with its (best_disp, best_score)
fuzzy_log(fz, rs, page_text, display_order, regex_variants) ==
  [ pg \in { p \in DOMAIN page_text : FuzzyRuns(rs[p], normalize(Raw(page_text[p]))) }
      |-> FuzzyPass(fz, page_text[pg], display_order, regex_variants) ]

\* line 147 raises ValueError (max of an empty sequence) on a page that reaches the
\* fuzzy pass when some display name has an empty pattern list
Raises(rs, page_text, display_order, regex_variants) ==
  /\ \E pg \in DOMAIN page_text : FuzzyRuns(rs[pg], normalize(Raw(page_text[pg])))
  /\ \E i \in 1..Len(display_order) :
       Get(regex_variants, display_order[i], << display_order[i] >>) = << >>

\* detect_machine_per_page(page_text, display_order, regex_variants, fuzzy_threshold),
\* build_prod_logs.py:119-159, with the behaviour fz of fuzz.WRatio
detect_machine_per_page(fz, page_text, display_order, regex_variants, fuzzy_threshold) ==
  fuzzy_stage(fz, regex_stage(page_text, display_order, regex_variants),
              page_text, display_order, regex_variants, fuzzy_threshold)

\* ------------------------------------------------------------------ build_prod_logs_append.py

\* normalize(s), build_prod_logs_append.py:15-19
normalize_append(s) == Strip(SubSpaceRuns(SubDashRuns(Lower(s))))

\* flex(token), build_prod_logs_append.py:40-52
flex_append(token) ==
  LET stripped == Strip(token)
      parts    == SplitSeps(stripped, << >>, FALSE)
      parts_esc == [ i \in 1..Len(NonEmpty(parts)) |-> Escape(NonEmpty(parts)[i]) ]
      joined   == Join(FlexClass, parts_esc)
  IN  IF stripped = << >> THEN << >> ELSE ReplaceHash(joined)

\* display_names, build_prod_logs_append.py:61-64
display_names_append ==
  << << "A", "W", "1" >>,
     << "C", "u", "t", "t", "e", "r", "1" >>,
     << "C", "u", "t", "t", "e", "r", "2" >>,
     << "D", "i", "e", "-", "c", "u", "t", "t", "e", "r" >>,
     << "J", "e", "n", "n", "e", "r", "j", "a", "h", "n" >>,
     << "P", "c", "1" >>,
     << "P", "c", "2" >>,
     << "P", "c", "3" >>,
     << "P", "c", "5" >>,
     << "S", "h", "e", "e", "t", "e", "r", "1" >>,
     << "S", "h", "e", "e", "t", "e", "r", "2" >> >>

\* raw_variants[disp] after the loop of lines 66-100: the unescaped spellings
raw_variants_append(disp) ==
  LET low == Lower(disp)
      n   == TrailingDigits(low)
  IN  { disp }
      \cup (IF StartsWith(low, << "c", "u", "t", "t", "e", "r" >>) /\ n # << >>
       THEN { << "C", "U", "T", "T", "E", "R", " " >> \o n,
             << "C", "U", "T", "T", "E", "R", " ", "#" >> \o n,
             << "C", "U", "T", "T", "E", "R", "_" >> \o n,
             << "C", "U", "T", "T", "E", "R", "-" >> \o n,
             << "C", "u", "t", "t", "e", "r", " " >> \o n,
             << "C", "u", "t", "t", "e", "r", " ", "#" >> \o n,
             << "C", "u", "t", "t", "e", "r", "_" >> \o n,
             << "C", "u", "t", "t", "e", "r", "-" >> \o n,
             << "C", "U", "T", "T", "E", "R", "#" >> \o n,
             << "C", "u", "t", "t", "e", "r", "#" >> \o n }
       ELSE {})
      \cup (IF StartsWith(low, << "p", "c" >>) /\ n # << >>
       THEN { << "P", "C" >> \o n,
             << "P", "C", " " >> \o n,
             << "P", "C", "_" >> \o n,
             << "P", "C", "-" >> \o n,
             << "P", "c" >> \o n,
             << "P", "c", " " >> \o n }
       ELSE {})
      \cup (IF StartsWith(low, << "s", "h", "e", "e", "t", "e", "r" >>) /\ n # << >>
       THEN { << "S", "H", "E", "E", "T", "E", "R" >> \o n,
             << "S", "H", "E", "E", "T", "E", "R", " " >> \o n,
             << "S", "H", "E", "E", "T", "E", "R", "_" >> \o n,
             << "S", "h", "e", "e", "t", "e", "r", " " >> \o n }
       ELSE {})
      \cup (IF low = << "d", "i", "e", "-", "c", "u", "t", "t", "e", "r" >>
       THEN { << "D", "I", "E", "-", "C", "U", "T", "T", "E", "R" >>,
             << "D", "I", "E", " ", "C", "U", "T", "T", "E", "R" >>,
             << "D", "i", "e", " ", "C", "u", "t", "t", "e", "r" >>,
             << "D", "i", "e", "-", "C", "u", "t", "t", "e", "r" >> }
       ELSE {})
      \cup (IF low = << "a", "w", "1" >>
       THEN { << "A", "W", "1" >>,
             << "A", "W", " ", "1" >>,
             << "A", "W", "-", "1" >>,
             << "A", "W", "_", "1" >> }
       ELSE {})
      \cup (IF low = << "j", "e", "n", "n", "e", "r", "j", "a", "h", "n" >>
       THEN { << "J", "E", "N", "N", "E", "R", "J", "A", "H", "N" >> }
       ELSE {})

\* the pattern list of a name with the raw spellings left unflexed
PatternsUnflexedAppend(disp) ==
  Sorted({ v \in raw_variants_append(disp) : v # << >> })

\* line 102: sorted({flex(v) for v in raw_variants[disp] if v})
PatternsAppend(disp) ==
  Sorted({ flex_append(v) : v \in { w \in raw_variants_append(disp) : w # << >> } })

\* build_machine_catalog(), build_prod_logs_append.py:54-104
build_machine_catalog_append ==
  [ display_order  |-> display_names_append,
    regex_variants |-> [ disp \in Range(display_names_append) |-> PatternsAppend(disp) ] ]

\* lines 116-120: chosen after the inner loop over the patterns rxs of disp, from
\* the j-th pattern on
RECURSIVE PatternLoopAppend(_, _, _, _, _)
PatternLoopAppend(rxs, raw, disp, j, chosen) ==
  IF j > Len(rxs) THEN chosen
  ELSE IF Search(rxs[j], raw) THEN disp
  ELSE PatternLoopAppend(rxs, raw, disp, j + 1, chosen)

\* lines 113-122: chosen after the regex pass, from the i-th display name on
RECURSIVE RegexPassAppend(_, _, _, _, _)
RegexPassAppend(display_order, regex_variants, raw, i, chosen) ==
  IF i > Len(display_order) THEN chosen
  ELSE LET disp  == display_order[i]
           after == PatternLoopAppend(Get(regex_variants, disp, << >>), raw, disp, 1,
                                      chosen)
       IN  IF Truthy(after) THEN after
           ELSE RegexPassAppend(display_order, regex_variants, raw, i + 1, after)

\* line 128: the scores of the variants of disp against norm_txt
ScoresAppend(fz, regex_variants, disp, norm_txt) ==
  LET vs == Get(regex_variants, disp, << disp >>)
  IN  { WRatio(fz, normalize_append(vs[j]), norm_txt) : j \in 1..Len(vs) }

\* lines 126-130: (best_disp, best_score) after the fuzzy loop, from the i-th
\* display name on
RECURSIVE FuzzyLoopAppend(_, _, _, _, _, _, _)
FuzzyLoopAppend(fz, display_order, regex_variants, norm_txt, i, best_disp, best_score) ==
  IF i > Len(display_order) THEN [ disp |-> best_disp, score |-> best_score ]
  ELSE LET disp  == display_order[i]
           score == Max(ScoresAppend(fz, regex_variants, disp, norm_txt))
       IN  IF score > best_score
           THEN FuzzyLoopAppend(fz, display_order, regex_variants, norm_txt, i + 1,
                                disp, score)
           ELSE FuzzyLoopAppend(fz, display_order, regex_variants, norm_txt, i + 1,
                                best_disp, best_score)

\* lines 132-133: the best name is chosen when its score reaches the threshold
ThresholdAppend(best, chosen, fuzzy_threshold) ==
  IF best.score >= fuzzy_threshold THEN best.disp ELSE chosen

\* lines 125-133: chosen after the fuzzy pass, from chosen after the regex pass
FuzzyPassAppend(fz, chosen, norm_txt, display_order, regex_variants, fuzzy_threshold) ==
  IF ~Truthy(chosen) /\ Truthy(norm_txt)
  THEN ThresholdAppend(FuzzyLoopAppend(fz, display_order, regex_variants, norm_txt, 1,
                                       None, -1),
                       chosen, fuzzy_threshold)
  ELSE chosen

\* lines 111-133, from raw: chosen at line 135
ChosenOfRawAppend(fz, raw, display_order, regex_variants, fuzzy_threshold) ==
  FuzzyPassAppend(fz, RegexPassAppend(display_order, regex_variants, raw, 1, None),
                  normalize_append(raw), display_order, regex_variants, fuzzy_threshold)

\* lines 110-133, one page: raw = page_text[pg] or "", then the two passes
ChosenAppend(fz, text, display_order, regex_variants, fuzzy_threshold) ==
  ChosenOfRawAppend(fz, IF Truthy(text) THEN text ELSE << >>, display_order,
                    regex_variants, fuzzy_threshold)

\* lines 108-140: page_to_machine after the pages of the list, in order
RECURSIVE PageLoopAppend(_, _, _, _, _, _)
PageLoopAppend(pages, fz, page_text, display_order, regex_variants, fuzzy_threshold) ==
  IF pages = << >> THEN << >>
  ELSE LET pg     == Head(pages)
           chosen == ChosenAppend(fz, page_text[pg], display_order, regex_variants,
                                  fuzzy_threshold)
           rest   == PageLoopAppend(Tail(pages), fz, page_text, display_order,
                                    regex_variants, fuzzy_threshold)
       IN  IF Truthy(chosen) THEN ( pg :> chosen ) @@ rest ELSE rest

\* detect_machine_per_page(page_text, display_order, regex_variants, fuzzy_threshold),
\* build_prod_logs_append.py:107-140, with the behaviour fz of fuzz.WRatio
detect_machine_per_page_append(fz, page_text, display_order, regex_variants, fuzzy_threshold) ==
  PageLoopAppend(SortedKeys(DOMAIN page_text), fz, page_text, display_order,
                 regex_variants, fuzzy_threshold)

\* line 110: raw = page_text[pg] or ""
RawAppend(text) == IF Truthy(text) THEN text ELSE << >>

\* line 125: the page with this raw text reaches the fuzzy pass
ReachesFuzzyAppend(raw, display_order, regex_variants) ==
  /\ ~Truthy(RegexPassAppend(display_order, regex_variants, raw, 1, None))
  /\ Truthy(normalize_append(raw))

\* line 131, dbg("FUZZY best=... score=..."): the pages that reach the fuzzy pass,
\* each with its (best_disp, best_score)
fuzzy_log_append(fz, page_text, display_order, regex_variants) ==
  [ pg \in { p \in DOMAIN page_text :
               ReachesFuzzyAppend(RawAppend(page_text[p]), display_order, regex_variants) }
      |-> FuzzyLoopAppend(fz, display_order, regex_variants,
                          normalize_append(RawAppend(page_text[pg])), 1, None, -1) ]

\* line 128 raises ValueError (max of an empty sequence): a page reaches the fuzzy
\* pass and some display name has an empty pattern list
RaisesAppend(page_text, display_order, regex_variants) ==
  \E pg \in DOMAIN page_text :
    LET raw == IF Truthy(page_text[pg]) THEN page_text[pg] ELSE << >>
    IN  /\ ~Truthy(RegexPassAppend(display_order, regex_variants, raw, 1, None))
        /\ Truthy(normalize_append(raw))
        /\ \E i \in 1..Len(display_order) :
             Get(regex_variants, display_order[i], << display_order[i] >>) = << >>

\* ------------------------------------------------------------------ inputs

\* Page texts the OCR stage can hand over: every display name as it is, separator and
\* '#' spellings, texts naming two machines, misspellings without any regex hit,
\* and texts without content.
T_AW1 == << "A", "W", "1" >>
T_Cutter1 == << "C", "u", "t", "t", "e", "r", "1" >>
T_Cutter2 == << "C", "u", "t", "t", "e", "r", "2" >>
T_DieCutter == << "D", "i", "e", "-", "c", "u", "t", "t", "e", "r" >>
T_Jennerjahn == << "J", "e", "n", "n", "e", "r", "j", "a", "h", "n" >>
T_Pc1 == << "P", "c", "1" >>
T_Pc2 == << "P", "c", "2" >>
T_Pc3 == << "P", "c", "3" >>
T_Pc5 == << "P", "c", "5" >>
T_Sheeter1 == << "S", "h", "e", "e", "t", "e", "r", "1" >>
T_Sheeter2 == << "S", "h", "e", "e", "t", "e", "r", "2" >>
T_CutterHashLog == << ".", ".", ".", "C", "U", "T", "T", "E", "R", " ", " ", " ", "#", "1", " ", "r", "u", "n", " ", "l", "o", "g", ".", ".", "." >>
T_CutterHash1 == << "C", "U", "T", "T", "E", "R", " ", "#", "1" >>
T_CutterHashDash == << "c", "u", "t", "t", "e", "r", "#", "-", "1" >>
T_PcHash2 == << "P", "C", " ", "#", "2" >>
T_SheeterHash1 == << "S", "H", "E", "E", "T", "E", "R", "#", "1" >>
T_SheeterDash1 == << "s", "h", "e", "e", "t", "e", "r", "-", "1" >>
T_PcThenCutter == << "P", "c", "2", " ", "l", "o", "g", " ", "o", "f", " ", "C", "U", "T", "T", "E", "R", "_", "1", " ", "C", "u", "t", "t", "e", "r", " ", "1" >>
T_DieCutter1 == << "d", "i", "e", "_", "c", "u", "t", "t", "e", "r", "1" >>
T_Cuter1 == << "C", "u", "t", "e", "r", "1", " ", "p", "r", "o", "d", "u", "c", "t", "i", "o", "n" >>
T_DieCuter == << "D", "I", "E", "-", "-", "c", "u", "t", "e", "r" >>
T_Blank == << " ", "-", "_", "\t" >>
T_Empty == << >>
T_Spaces == << " ", "\n" >>

Texts == { T_AW1, T_Cutter1, T_Cutter2, T_DieCutter, T_Jennerjahn, T_Pc1, T_Pc2, T_Pc3,
           T_Pc5, T_Sheeter1, T_Sheeter2, T_CutterHashLog, T_CutterHash1, T_CutterHashDash,
           T_PcHash2, T_SheeterHash1, T_SheeterDash1, T_PcThenCutter, T_DieCutter1, T_Cuter1,
           T_DieCuter, T_Blank, T_Empty, T_Spaces, None }

\* Texts of the pages of a longer document: one with a regex hit, two left to the
\* fuzzy pass.
OtherTexts == { T_Pc2, T_Cuter1, T_DieCuter }

\* The most pages of one document.
MaxPages == 2

\* page_text: the documents of one page, with any text, and the documents of up to
\* MaxPages pages with texts of OtherTexts.
PageTexts ==
  [ { 1 } -> Texts ] \cup UNION { [ 1..n -> OtherTexts ] : n \in 0..MaxPages }

\* --fuzzy: below the scale, its lower end, the default, above the scale
DefaultThreshold == 85

Thresholds == { -1, 0, DefaultThreshold, 101 }

\* Catalogs a caller can pass instead of the built one.
X9 == << "X", "9" >>

EmptyCatalog == [ display_order |-> << >>, regex_variants |-> << >> ]

\* two names of the built catalog, in the opposite order
ReversedCatalog ==
  [ display_order  |-> << T_Pc2, T_Cutter1 >>,
    regex_variants |-> [ d \in { T_Pc2, T_Cutter1 } |-> build_machine_catalog.regex_variants[d] ] ]

\* a display name without an entry in regex_variants
SparseCatalog ==
  [ display_order  |-> << X9, T_Sheeter1 >>,
    regex_variants |-> ( T_Sheeter1 :> build_machine_catalog.regex_variants[T_Sheeter1] ) ]

\* a display name whose pattern list is empty
HollowCatalog ==
  [ display_order  |-> << T_AW1, T_Pc2 >>,
    regex_variants |-> ( T_AW1 :> << >> )
                         @@ ( T_Pc2 :> build_machine_catalog.regex_variants[T_Pc2] ) ]

CallerCatalogs == { EmptyCatalog, ReversedCatalog, SparseCatalog, HollowCatalog }

\* ------------------------------------------------------------------ state

VARIABLES
  pc,               \* where main() is: "start", "catalog", "pages", "done", "error"
  display_order,    \* the catalog's display names, in order
  regex_variants,   \* display name -> sorted list of patterns
  page_text,        \* page number -> text (or None)
  fuzzy_threshold,  \* args.fuzzy
  fuzz,             \* the behaviour of fuzz.WRatio during the call
  fuzzy_best,       \* page -> (best_disp, best_score) the fuzzy pass logged
  page_to_machine,  \* the result of detect_machine_per_page
  variant,          \* the raw variant handed to flex
  pattern,          \* what flex returned for it
  text,             \* the text searched with the pattern
  expect,           \* how the text was written: "contains" or "differs"
  found,            \* re.search(pattern, text, re.IGNORECASE) is not None
  reseparated,      \* the inputs of a second call of detect_machine_per_page
  rescored,         \* what the fuzzy pass logged and the result of that call
  set_orders,       \* line 115: the list sorted() made of the set it is sorting, in the order the set iterated
  catalogs,         \* the catalog a call of build_machine_catalog is building, and then returned
  remote,           \* the CSV file on GitHub: exists, content (lines), sha
  entry,            \* what the user entered: date, shift, and per machine lbs, no_sched, notes
  submitted,        \* the form's submit button was pressed in this run
  rows,             \* the rows the form loop built (lines 104-109)
  validation_errors, \* the machines the form loop found invalid (line 113)
  fetched,          \* what fetch_github_file returned: content, sha
  requests,         \* the requests sent to the GitHub API in this run, in order
  shown,            \* the message the run ended with
  sessions,         \* two browser sessions of the form: position, entry, fetched, payload, shown
  tables,           \* analyzeResult["tables"]: the pages and the DataFrame of each
  t_idx,            \* how many passes the writing loop has made
  sheet_state,      \* append_tables_by_machine: name -> startrow, first_header_cols
  workbook,         \* the Excel file: sheet name -> the blocks written to it, in order
  header,           \* table_to_dataframe: the stripped cells of the header row
  empty_cols,       \* table_to_dataframe: which columns of the body are fully empty
  cols,             \* table_to_dataframe: the column names of the returned DataFrame
  ws,               \* append_to_excel: the rows of the 'Daily by Shifts' sheet
  csv,              \* append_to_excel: the rows of the CSV
  ws_before,        \* append_to_excel: the sheet the last run found
  summary,          \* append_to_excel: the counts and the value the last run returned
  today,            \* prod_scheduler: the day of the run
  orders,           \* prod_scheduler: the rows of the query
  add_following_week,\* prod_scheduler: the 'Show Following Week' toggle
  week_summary,     \* prod_scheduler: (machine, date) -> weight, order count
  port_display_order,\* build_prod_logs_append.py: the display names its catalog returned
  port_regex_variants,\* build_prod_logs_append.py: the pattern lists its catalog returned
  port_page_to_machine,\* build_prod_logs_append.py: the result of its detect_machine_per_page
  port_raised,      \* build_prod_logs_append.py: its detect_machine_per_page raised
  port_fuzzy_best   \* build_prod_logs_append.py: page -> (best_disp, best_score) its fuzzy pass logged

detection == << display_order, regex_variants, page_text, fuzzy_threshold, fuzz,
                fuzzy_best, page_to_machine >>

flexing == << variant, pattern, text, expect, found >>

renorm == << reseparated, rescored >>

cataloguing == << set_orders, catalogs >>

form == << remote, entry, submitted, rows, validation_errors, fetched, requests, shown,
          sessions >>

excel == << tables, t_idx, sheet_state, workbook >>

heading == << header, empty_cols, cols >>

sync == << ws, csv, ws_before, summary >>

week == << today, orders, add_following_week, week_summary >>

port == << port_display_order, port_regex_variants, port_page_to_machine, port_raised,
          port_fuzzy_best >>

vars == << pc, detection, flexing, renorm, cataloguing, form, excel, heading, sync, week, port >>

\* what the actions of one part leave alone
beside_detection == << flexing, renorm, cataloguing, form, excel, heading, sync, week, port >>

beside_flexing == << detection, renorm, cataloguing, form, excel, heading, sync, week, port >>

beside_renorm == << flexing, cataloguing, form, excel, heading, sync, week, port >>

beside_cataloguing == << detection, flexing, renorm, form, excel, heading, sync, week, port >>

beside_form == << detection, flexing, renorm, cataloguing, excel, heading, sync, week, port >>

beside_excel == << detection, flexing, renorm, cataloguing, form, heading, sync, week, port >>

beside_heading == << detection, flexing, renorm, cataloguing, form, excel, sync, week, port >>

beside_sync == << detection, flexing, renorm, cataloguing, form, excel, heading, week, port >>

beside_week == << detection, flexing, renorm, cataloguing, form, excel, heading, sync, port >>

beside_detection_port == << flexing, renorm, cataloguing, form, excel, heading, sync, week >>

beside_port == << detection, flexing, renorm, cataloguing, form, excel, heading, sync, week >>

\* the parts a specification does not use stay as constructed
IdleFlexing ==
  variant = << >> /\ pattern = << "None" >> /\ text = << >> /\ expect = "" /\ found = FALSE

IdleRenorm == reseparated = << >> /\ rescored = << >>

IdleCataloguing == set_orders = << >> /\ catalogs = << >>

IdleExcel == tables = << >> /\ t_idx = 0 /\ sheet_state = << >> /\ workbook = << >>

IdleHeading == header = << >> /\ empty_cols = << >> /\ cols = << >>

IdleSync == ws = << >> /\ csv = << >> /\ ws_before = << >> /\ summary = << >>

IdleWeek == today = 0 /\ orders = {} /\ add_following_week = FALSE /\ week_summary = << >>

IdlePort == 
  /\ port_display_order = << >> /\ port_regex_variants = << >>
  /\ port_page_to_machine = << >> /\ port_raised = FALSE /\ port_fuzzy_best = << >>

IdleForm ==
  /\ remote = << >> /\ entry = << >> /\ submitted = FALSE /\ rows = << >>
  /\ validation_errors = << >> /\ fetched = << >> /\ requests = << >> /\ shown = << >>
  /\ sessions = << >>

\* the normalized page texts of a document
NormTexts(pt) ==
  { normalize(Raw(pt[pg])) : pg \in DOMAIN pt }

\* Variant strings the explored behaviours of fuzz.WRatio single out: two plain
\* names and a pattern of "Die-cutter" as normalize leaves it.
HotKeys ==
  { << "c", "u", "t", "t", "e", "r", "1" >>,
    << "p", "c", "2" >>,
    << "d", "i", "e", "[", "\\", "s", "\\", " ", "]", "*", "c", "u", "t", "t", "e", "r" >> }

\* The most variant strings that score above the base score at once.
MaxHot == 2

\* (score on the singled-out pairs, score elsewhere)
Levels ==
  { [ hi |-> 100, base |-> 0 ],
    [ hi |-> DefaultThreshold, base |-> DefaultThreshold - 1 ] }

\* The behaviours of fuzz.WRatio explored for one call: a base score everywhere but
\* on at most MaxHot variant strings which, compared with one of the page texts,
\* score higher.
Behaviours(pt) ==
  { [ hot |-> K \X { t }, hi |-> s.hi, base |-> s.base ] :
      K \in { x \in SUBSET HotKeys : x # {} /\ Cardinality(x) <= MaxHot },
      t \in NormTexts(pt) \ { << >> },
      s \in Levels }
  \cup { [ hot |-> {}, hi |-> s.hi, base |-> s.base ] : s \in Levels }

NoFuzz == [ hot |-> {}, hi |-> 0, base |-> 0 ]

Init ==
  /\ pc = "start"
  /\ fuzzy_threshold \in Thresholds
  /\ display_order = << >>
  /\ regex_variants = << >>
  /\ page_text = << >>
  /\ fuzz = NoFuzz
  /\ fuzzy_best = << >>
  /\ page_to_machine = << >>
  /\ IdleFlexing /\ IdleRenorm /\ IdleCataloguing /\ IdleForm /\ IdleExcel /\ IdleHeading /\ IdleSync /\ IdleWeek /\ IdlePort

\* main, line 238: display_order, regex_variants = build_machine_catalog()
BuildCatalog ==
  /\ pc = "start"
  /\ display_order' = build_machine_catalog.display_order
  /\ regex_variants' = build_machine_catalog.regex_variants
  /\ pc' = "catalog"
  /\ UNCHANGED << page_text, fuzzy_threshold, fuzz, fuzzy_best, page_to_machine, beside_detection >>

\* a caller of detect_machine_per_page passes a catalog of its own
SupplyCatalog ==
  /\ pc = "start"
  /\ \E c \in CallerCatalogs :
       /\ display_order' = c.display_order
       /\ regex_variants' = c.regex_variants
  /\ pc' = "catalog"
  /\ UNCHANGED << page_text, fuzzy_threshold, fuzz, fuzzy_best, page_to_machine, beside_detection >>

\* main, line 242: per_page_text = page_text_from_lines(ar)
ReadPages ==
  /\ pc = "catalog"
  /\ page_text' \in PageTexts
  /\ pc' = "pages"
  /\ UNCHANGED << display_order, regex_variants, fuzzy_threshold, fuzz, fuzzy_best,
                  page_to_machine, beside_detection >>

\* main, line 245: page_to_machine = detect_machine_per_page(...)
Detect ==
  /\ pc = "pages"
  /\ LET rs == regex_stage(page_text, display_order, regex_variants)
     IN  /\ ~Raises(rs, page_text, display_order, regex_variants)
         /\ \E fz \in Behaviours(page_text) :
              /\ fuzz' = fz
              /\ fuzzy_best' = fuzzy_log(fz, rs, page_text, display_order, regex_variants)
              /\ page_to_machine' =
                   fuzzy_stage(fz, rs, page_text, display_order, regex_variants,
                               fuzzy_threshold)
  /\ pc' = "done"
  /\ UNCHANGED << display_order, regex_variants, page_text, fuzzy_threshold, beside_detection >>

\* the call ends in the ValueError of line 147
DetectRaises ==
  /\ pc = "pages"
  /\ Raises(regex_stage(page_text, display_order, regex_variants),
            page_text, display_order, regex_variants)
  /\ pc' = "error"
  /\ UNCHANGED << detection, beside_detection >>

Next == BuildCatalog \/ SupplyCatalog \/ ReadPages \/ Detect \/ DetectRaises

Spec == Init /\ [][Next]_vars


\* ------------------------------------------------------------------ flex and search

\* str.upper() on one character, 'a'..'z' (97..122) to 'A'..'Z'
UpperChar ==
  [ c \in Chars |->
      IF Ord[c] >= 97 /\ Ord[c] <= 122 THEN AsciiLow[Ord[c] - 32 - 31] ELSE c ]

Upper(s) == [ i \in 1..Len(s) |-> UpperChar[s[i]] ]

\* The longest run of separators written between two tokens of a text.
MaxSepLen == 2

\* the runs of ' ', '-', '_' of the lengths lo..hi
RECURSIVE SepRuns(_, _)
SepRuns(lo, hi) ==
  IF hi < lo THEN {}
  ELSE IF hi = 0 THEN { << >> }
  ELSE SepRuns(lo, hi - 1)
       \cup { r \o << c >> : r \in SepRuns(hi - 1, hi - 1), c \in { " ", "-", "_" } }

\* whitespace written before and after a '#'
HashSpaces == { << >>, << " " >>, << "\t", " " >> }

\* tok with w1 before and w2 after each '#'
RECURSIVE SpaceHash(_, _, _)
SpaceHash(tok, w1, w2) ==
  IF tok = << >> THEN << >>
  ELSE (IF Head(tok) = "#" THEN w1 \o << "#" >> \o w2 ELSE << Head(tok) >>)
       \o SpaceHash(Tail(tok), w1, w2)

\* the tokens of a variant, as flex splits it
Tokens(v) == NonEmpty(SplitSeps(Strip(v), << >>, FALSE))

\* what stands before and after the machine name in a page text
Frames ==
  { [ pre |-> << >>, post |-> << >> ],
    [ pre |-> << ".", ".", "." >>,
      post |-> << " ", "r", "u", "n", " ", "l", "o", "g", ".", ".", "." >> ] }

\* the texts that contain the tokens of v in order: in any letter case, any run of
\* separators up to MaxSepLen between the tokens, optional whitespace around '#'
Containing(v) ==
  LET toks == Tokens(v)
  IN  { f.pre \o Join(run, [ i \in 1..Len(toks) |-> SpaceHash(cased[i], w1, w2) ]) \o f.post :
          cased \in { toks, [ i \in 1..Len(toks) |-> Upper(toks[i]) ],
                      [ i \in 1..Len(toks) |-> Lower(toks[i]) ] },
          run \in SepRuns(0, MaxSepLen),
          w1 \in HashSpaces, w2 \in HashSpaces,
          f \in Frames }

\* tok with its p-th character replaced by a letter that differs from it
Damaged(tok, p) ==
  [ tok EXCEPT ![p] = IF LowerChar[@] = "x" THEN "y" ELSE "x" ]

\* the same texts with the content of one token changed in one character
Differing(v) ==
  LET toks == Tokens(v)
      at   == { kp \in (1..Len(toks)) \X (1..Len(v)) :
                  kp[2] <= Len(toks[kp[1]]) /\ toks[kp[1]][kp[2]] # "#" }
  IN  { f.pre \o Join(run, [ toks EXCEPT ![kp[1]] = Damaged(@, kp[2]) ]) \o f.post :
          kp \in at,
          run \in SepRuns(0, MaxSepLen),
          f \in Frames }

\* The variants flex is called with: the raw variants of the 11 display names, the
\* example of its docstring, and one with regex metacharacters.
FlexInputs ==
  UNION { RawVariants(display_names[i]) : i \in 1..Len(display_names) }
  \cup { << "C", "U", "T", "T", "E", "R", " ", "#", " ", "2" >>,
         << "a", ".", "b", " ", "(", "c", ")" >> }

InitFlex ==
  /\ pc = "flex"
  /\ variant \in FlexInputs
  /\ pattern = None /\ text = << >> /\ expect = "" /\ found = FALSE
  /\ IdleRenorm /\ IdleCataloguing /\ IdleForm /\ IdleExcel /\ IdleHeading /\ IdleSync /\ IdleWeek /\ IdlePort
  /\ fuzzy_threshold = DefaultThreshold
  /\ display_order = << >>
  /\ regex_variants = << >>
  /\ page_text = << >>
  /\ fuzz = NoFuzz
  /\ fuzzy_best = << >>
  /\ page_to_machine = << >>

\* build_machine_catalog, line 112: flex(v)
Flex ==
  /\ pc = "flex"
  /\ pattern' = flex(variant)
  /\ pc' = "flexed"
  /\ UNCHANGED << beside_flexing, variant, text, expect, found >>

\* detect_machine_per_page, line 135: re.search(rx, raw, flags=re.IGNORECASE) on a
\* text that contains the tokens of the variant
SearchContaining ==
  /\ pc = "flexed"
  /\ \E t \in Containing(variant) :
       /\ text' = t
       /\ found' = Search(pattern, t)
  /\ expect' = "contains"
  /\ pc' = "searched"
  /\ UNCHANGED << beside_flexing, variant, pattern >>

\* the same on a text in which the content of a token differs
SearchDiffering ==
  /\ pc = "flexed"
  /\ \E t \in Differing(variant) :
       /\ text' = t
       /\ found' = Search(pattern, t)
  /\ expect' = "differs"
  /\ pc' = "searched"
  /\ UNCHANGED << beside_flexing, variant, pattern >>

NextFlex == Flex \/ SearchContaining \/ SearchDiffering

SpecFlex == InitFlex /\ [][NextFlex]_vars

\* ------------------------------------------------------------------ separator runs

\* the maximal runs of separators (whitespace, '-', '_') of a string, as <<first, last>>
SepRunsOf(s) ==
  LET sep(i) == IsSpace(s[i]) \/ IsDashUnderscore(s[i])
  IN  { r \in (1..Len(s)) \X (1..Len(s)) :
          /\ r[1] <= r[2]
          /\ \A i \in r[1]..r[2] : sep(i)
          /\ r[1] = 1 \/ ~sep(r[1] - 1)
          /\ r[2] = Len(s) \/ ~sep(r[2] + 1) }

\* the strings got from s by replacing one separator run by another one of length
\* 1..MaxSepLen
Reseparated(s) ==
  { SubSeq(s, 1, r[1] - 1) \o run \o SubSeq(s, r[2] + 1, Len(s)) :
      r \in SepRunsOf(s), run \in SepRuns(1, MaxSepLen) }

\* A catalog of two names with their patterns of the built catalog.
DieCatalog ==
  [ display_order  |-> << T_DieCutter, T_Pc2 >>,
    regex_variants |-> [ d \in { T_DieCutter, T_Pc2 } |->
                           build_machine_catalog.regex_variants[d] ] ]

\* one-page documents without a regex hit under DieCatalog
NormTextsIn == { T_DieCuter, T_Cuter1, T_PcHash2 }

InitNorm ==
  /\ pc = "pages"
  /\ display_order = DieCatalog.display_order
  /\ regex_variants = DieCatalog.regex_variants
  /\ page_text \in [ { 1 } -> NormTextsIn ]
  /\ fuzzy_threshold = DefaultThreshold
  /\ fuzz = NoFuzz
  /\ fuzzy_best = << >>
  /\ page_to_machine = << >>
  /\ IdleFlexing /\ IdleRenorm /\ IdleCataloguing /\ IdleForm /\ IdleExcel /\ IdleHeading /\ IdleSync /\ IdleWeek /\ IdlePort

\* detect_machine_per_page called again with the inputs in r, under the same
\* behaviour of fuzz.WRatio
Rescore(r) ==
  LET rs == regex_stage(r.page_text, display_order, r.regex_variants)
  IN  /\ reseparated' = r
      /\ rescored' =
           [ best   |-> fuzzy_log(fuzz, rs, r.page_text, display_order, r.regex_variants),
             result |-> fuzzy_stage(fuzz, rs, r.page_text, display_order,
                                    r.regex_variants, fuzzy_threshold) ]

\* a second call on the document with one separator run of one page replaced
ReseparateText ==
  /\ pc = "done"
  /\ \E pg \in DOMAIN page_text :
       \E t \in Reseparated(Raw(page_text[pg])) :
         Rescore([ page_text |-> [ page_text EXCEPT ![pg] = t ],
                   regex_variants |-> regex_variants ])
  /\ pc' = "rescored"
  /\ UNCHANGED << detection, beside_renorm >>

\* a second call with one separator run of one variant string replaced
ReseparateVariant ==
  /\ pc = "done"
  /\ \E d \in DOMAIN regex_variants :
       \E j \in 1..Len(regex_variants[d]) :
         \E w \in Reseparated(regex_variants[d][j]) :
           Rescore([ page_text |-> page_text,
                     regex_variants |-> [ regex_variants EXCEPT ![d][j] = w ] ])
  /\ pc' = "rescored"
  /\ UNCHANGED << detection, beside_renorm >>

NextNorm == Detect \/ ReseparateText \/ ReseparateVariant

SpecNorm == InitNorm /\ [][NextNorm]_vars

\* ------------------------------------------------------------------ catalog calls

\* The last seed of the orders a set of str is let to iterate in: the largest
\* sets of line 112 have 7 elements, which iterate in one of 7! orders.
MaxSeed == 5039

\* a sequence without its i-th element
Without(seq, i) == SubSeq(seq, 1, i - 1) \o SubSeq(seq, i + 1, Len(seq))

\* the n-th arrangement of a sequence: n in 0..(Len(seq)! - 1) gives every one
RECURSIVE Arranged(_, _)
Arranged(seq, n) ==
  IF seq = << >> THEN << >>
  ELSE LET i == (n % Len(seq)) + 1
       IN  << seq[i] >> \o Arranged(Without(seq, i), n \div Len(seq))

\* the order a set of str iterates in (it depends on the hashes of its elements,
\* which differ from process to process): any order of its elements, one per seed
SetOrder(S, seed) == Arranged(Sorted(S), seed)

\* list(xs): the elements in the order met
Unsorted(xs) == xs

\* x entered before the first element of a sorted list that is greater than it
RECURSIVE Inserted(_, _)
Inserted(x, xs) ==
  IF xs = << >> THEN << x >>
  ELSE IF StrLess(x, Head(xs)) THEN << x >> \o xs
  ELSE << Head(xs) >> \o Inserted(x, Tail(xs))

\* line 115: sorted(v) of the elements of a set, met in the order xs
RECURSIVE SortedList(_)
SortedList(xs) ==
  IF xs = << >> THEN << >>
  ELSE Inserted(Head(xs), SortedList(Tail(xs)))

\* line 115: the entries of regex_variants the comprehension has made so far
Entered == IF catalogs = << >> THEN << >> ELSE catalogs[1].regex_variants

\* line 115: the key the comprehension is at (variants holds the display names in
\* the order of display_names)
NextName == display_names[Cardinality(DOMAIN Entered) + 1]

InitCatalog ==
  /\ pc = "start"
  /\ set_orders = << >>
  /\ catalogs = << >>
  /\ fuzzy_threshold = DefaultThreshold
  /\ display_order = << >>
  /\ regex_variants = << >>
  /\ page_text = << >>
  /\ fuzz = NoFuzz
  /\ fuzzy_best = << >>
  /\ page_to_machine = << >>
  /\ IdleFlexing /\ IdleRenorm /\ IdleForm /\ IdleExcel /\ IdleHeading /\ IdleSync /\ IdleWeek /\ IdlePort

\* line 115, sorted(v): the elements of the set of the next name are put in a
\* list, in the order this set iterates in (every set in an order of its own)
ListSet ==
  /\ pc \in { "start", "entered" }
  /\ \E seed \in 0..MaxSeed :
       set_orders' = << SetOrder(FlexedVariants(NextName), seed) >>
  /\ pc' = "listed"
  /\ UNCHANGED << catalogs, beside_cataloguing >>

\* line 115, sorted(v): the list is sorted and entered under its name; after the
\* last name, line 116 returns the catalog
EnterSorted ==
  /\ pc = "listed"
  /\ catalogs' = << [ display_order  |-> display_names,
                      regex_variants |-> Entered @@ ( NextName :> SortedList(set_orders[1]) ) ] >>
  /\ set_orders' = << >>
  /\ pc' = IF Cardinality(DOMAIN Entered) + 1 = Len(display_names) THEN "once" ELSE "entered"
  /\ UNCHANGED beside_cataloguing

NextCatalog == ListSet \/ EnterSorted

SpecCatalog == InitCatalog /\ [][NextCatalog]_vars

\* ------------------------------------------------------------------ other pages

\* the texts of the pages of these documents: one with a regex hit under DieCatalog,
\* one left to the fuzzy pass
LocalTexts == { T_Pc2, T_DieCuter }

LocalDocs == UNION { [ 1..n -> LocalTexts ] : n \in 1..MaxPages }

InitLocal ==
  /\ pc = "pages"
  /\ display_order = DieCatalog.display_order
  /\ regex_variants = DieCatalog.regex_variants
  /\ page_text \in LocalDocs
  /\ fuzzy_threshold = DefaultThreshold
  /\ fuzz = NoFuzz
  /\ fuzzy_best = << >>
  /\ page_to_machine = << >>
  /\ IdleFlexing /\ IdleRenorm /\ IdleCataloguing /\ IdleForm /\ IdleExcel /\ IdleHeading /\ IdleSync /\ IdleWeek /\ IdlePort

\* a second call on a document that keeps the text of one page, while other pages
\* are changed, added or removed
ChangeOtherPages ==
  /\ pc = "done"
  /\ \E pg \in DOMAIN page_text :
       \E doc \in LocalDocs :
         /\ pg \in DOMAIN doc
         /\ doc[pg] = page_text[pg]
         /\ doc # page_text
         /\ Rescore([ page_text |-> doc, regex_variants |-> regex_variants, kept |-> pg ])
  /\ pc' = "rescored"
  /\ UNCHANGED << detection, beside_renorm >>

NextLocal == Detect \/ ChangeOtherPages

SpecLocal == InitLocal /\ [][NextLocal]_vars

\* ------------------------------------------------------------------ the daily-output form

\* lines 31-35
MACHINES ==
  << "Jenny", "Cutter 1", "Cutter 2", "Cutter 3", "Die Cutter",
     "PC1", "PC2", "PC3", "PC5", "AW1",
     "Sheeter 1", "Sheeter 2" >>

\* line 55: the options of the shift selectbox
Shifts == { "Shift 1", "Shift 2" }

\* line 57: entry_date.strftime("%A"), on the dates the form is filled with
day_of_week ==
  [ d \in { "2025-09-01", "2025-09-02" } |->
      IF d = "2025-09-01" THEN "Monday" ELSE "Tuesday" ]

\* lines 40-46: the session_state defaults of one machine
DefaultEntry == [ lbs |-> 0, no_sched |-> FALSE, notes |-> << >> ]

\* lines 104-109: the row the form loop appends for machine i
FormRow(e, i) ==
  [ machine  |-> MACHINES[i],
    lbs      |-> e.machines[i].lbs,
    no_sched |-> IF e.machines[i].no_sched THEN << "X" >> ELSE << >>,
    notes    |-> Strip(e.machines[i].notes) ]

FormRows(e) == [ i \in 1..Len(MACHINES) |-> FormRow(e, i) ]

\* line 112: "lbs == 0 and not no_sched"; the mutant below drops the first test
InvalidUnchecked(e, i) == ~ e.machines[i].no_sched

Invalid(e, i) == e.machines[i].lbs = 0 /\ ~ e.machines[i].no_sched

\* lines 73, 113: validation_errors, appended in the order of MACHINES
RECURSIVE ErrorsFrom(_, _)
ErrorsFrom(e, i) ==
  IF i > Len(MACHINES) THEN << >>
  ELSE (IF Invalid(e, i) THEN << MACHINES[i] >> ELSE << >>) \o ErrorsFrom(e, i + 1)

ValidationErrors(e) == ErrorsFrom(e, 1)

\* lines 158-162: df_new, the form rows with Date, Day of Week and Shift inserted
df_new(e, rs) ==
  [ i \in 1..Len(rs) |->
      [ machine |-> rs[i].machine, date |-> e.date, day |-> day_of_week[e.date],
        shift |-> e.shift, lbs |-> rs[i].lbs, no_sched |-> rs[i].no_sched,
        notes |-> rs[i].notes ] ]

\* pandas' missing value
NaN == << "NaN" >>

\* pd.read_csv's default na_values, among the cell texts the form can produce
NAValues == { << >>, << "N", "/", "A" >>, << "N", "A" >> }

\* line 167: how read_csv reads a text cell of an object column
ReadCell(t) == IF t \in NAValues THEN NaN ELSE t

\* line 173: how to_csv writes a value of an object column (na_rep is "")
WriteCell(v) == IF v = NaN THEN << >> ELSE v

\* lines 167, 173: the text of a float of the "Total Produced (LB)" column
FloatText == [ n \in { 0, 5 } |-> IF n = 0 THEN "0.0" ELSE "5.0" ]

ReadFloat(t) == CHOOSE n \in DOMAIN FloatText : FloatText[n] = t

\* A CSV text is: lead (whitespace before anything else), then, if there is a
\* header, the header line and one line per row.  The cells of a line are
\* kept as the texts between the commas.
EmptyContent == [ lead |-> << >>, header |-> FALSE, lines |-> << >> ]

\* line 166: content.strip()
StripContent(content) ==
  IF content.header THEN [ content EXCEPT !.lead = << >> ]
  ELSE [ content EXCEPT !.lead = Strip(content.lead) ]

ContentTruthy(content) == StripContent(content) # EmptyContent

\* line 167: pd.read_csv(StringIO(content))
read_csv(content) ==
  [ i \in 1..Len(content.lines) |->
      LET l == content.lines[i]
      IN  [ machine |-> l.machine, date |-> l.date, day |-> l.day, shift |-> l.shift,
            lbs |-> ReadFloat(l.lbs),
            no_sched |-> ReadCell(l.no_sched),
            notes |-> ReadCell(l.notes) ] ]

\* lines 172-173: df_combined.to_csv(csv_buffer, index=False)
to_csv(df) ==
  [ lead |-> << >>, header |-> TRUE,
    lines |-> [ i \in 1..Len(df) |->
      [ machine |-> df[i].machine, date |-> df[i].date, day |-> df[i].day,
        shift |-> df[i].shift,
        lbs |-> FloatText[df[i].lbs],
        no_sched |-> WriteCell(df[i].no_sched),
        notes |-> WriteCell(df[i].notes) ] ] ]

\* lines 166-170: df_combined
df_combined(content, new) ==
  IF ContentTruthy(content) THEN read_csv(content) \o new ELSE new

\* lines 120-130: what fetch_github_file returns on a response; "raise" on
\* any status other than 200 and 404
fetch_github_file(status, file) ==
  IF status = 200 THEN [ content |-> file.content, sha |-> file.sha ]
  ELSE IF status = 404 THEN [ content |-> EmptyContent, sha |-> None ]
  ELSE [ raise |-> status ]

\* lines 136-143: the payload of the PUT, with "sha" only if sha is truthy
Payload(updated_csv, sha) ==
  IF Truthy(sha) THEN [ method |-> "PUT", content |-> updated_csv, sha |-> sha ]
  ELSE [ method |-> "PUT", content |-> updated_csv ]

\* The contents API: a GET of a file answers 200 if it exists and 404 if not;
\* any request may also be refused.
GetStatuses(file) == (IF file.exists THEN { 200 } ELSE { 404 }) \cup { 500 }

\* A PUT creates (201) a file that does not exist when no sha is given, and
\* updates (200) one that exists when its current sha is given; else 409/422.
PutStatuses(file, payload) ==
  IF file.exists
  THEN (IF "sha" \in DOMAIN payload /\ payload.sha = file.sha THEN { 200 } ELSE { 422 })
       \cup { 409 }
  ELSE (IF "sha" \in DOMAIN payload THEN { 422 } ELSE { 201 }) \cup { 409 }

ShaOld == << "a", "1" >>
ShaNew == << "b", "2" >>

\* the sha of the next version of the file
ShaThird == << "c", "3" >>

NextSha(sha) == IF sha = ShaOld THEN ShaNew ELSE IF sha = ShaNew THEN ShaThird ELSE ShaOld

\* line 145: "response.status_code not in [200, 201]" raises; the mutant below
\* takes every answer for a success
CommitOkAlways(status) == TRUE

CommitOk(status) == status \in { 200, 201 }

\* the contents API after a PUT it answered with status
Put(file, payload, status) ==
  IF status \in { 200, 201 }
  THEN [ exists |-> TRUE, content |-> payload.content,
         sha |-> IF file.exists THEN NextSha(file.sha) ELSE ShaOld ]
  ELSE file

\* ------------------------- what the form is given -------------------------

\* what may be entered for one machine
EntryChoices ==
  { [ lbs |-> 5, no_sched |-> FALSE, notes |-> << >> ],
    [ lbs |-> 0, no_sched |-> TRUE,  notes |-> << >> ],
    [ lbs |-> 0, no_sched |-> FALSE, notes |-> << >> ],
    [ lbs |-> 5, no_sched |-> FALSE, notes |-> << "N", "/", "A" >> ],
    [ lbs |-> 5, no_sched |-> TRUE,  notes |-> << " ", "o", "k", " " >> ] }

\* the machines whose entries vary freely: the first, a middle and the last
EditedMachines == { "Jenny", "PC1", "Sheeter 2" }

\* what the other machines are given, all alike
RestChoices ==
  { [ lbs |-> 5, no_sched |-> FALSE, notes |-> << >> ],
    [ lbs |-> 0, no_sched |-> TRUE,  notes |-> << >> ] }

Sessions == { << "2025-09-01", "Shift 1" >>, << "2025-09-02", "Shift 2" >> }

Entries ==
  { [ date |-> s[1], shift |-> s[2],
      machines |-> [ i \in 1..Len(MACHINES) |->
                       IF MACHINES[i] = "Jenny" THEN a
                       ELSE IF MACHINES[i] = "PC1" THEN b
                       ELSE IF MACHINES[i] = "Sheeter 2" THEN c
                       ELSE rest ] ] :
      s \in Sessions, a \in EntryChoices, b \in EntryChoices, c \in EntryChoices,
      rest \in RestChoices }

\* the entries an earlier successful submission may have made
PriorEntries ==
  { e \in Entries :
      /\ e.date = "2025-09-01"
      /\ e.machines[1] \in { [ lbs |-> 5, no_sched |-> FALSE, notes |-> << >> ],
                             [ lbs |-> 5, no_sched |-> FALSE, notes |-> << "N", "/", "A" >> ] }
      /\ e.machines[6] = [ lbs |-> 5, no_sched |-> TRUE, notes |-> << " ", "o", "k", " " >> ]
      /\ e.machines[12] = [ lbs |-> 0, no_sched |-> TRUE, notes |-> << >> ]
      /\ e.machines[2].lbs = 5 }

\* the files the form may find: none, an empty one, a blank one, one with
\* only the header, and the files an earlier submission committed
RemoteFiles ==
  { [ exists |-> FALSE, content |-> EmptyContent, sha |-> None ],
    [ exists |-> TRUE, content |-> EmptyContent, sha |-> ShaOld ],
    [ exists |-> TRUE, content |-> [ EmptyContent EXCEPT !.lead = << "\n" >> ], sha |-> ShaOld ],
    [ exists |-> TRUE, content |-> to_csv(<< >>), sha |-> ShaOld ] }
  \cup { [ exists |-> TRUE, content |-> to_csv(df_new(e, FormRows(e))), sha |-> ShaOld ] :
           e \in PriorEntries }

InitForm ==
  /\ pc = "form"
  /\ remote \in RemoteFiles
  /\ entry = [ date |-> "2025-09-01", shift |-> "Shift 1",
               machines |-> [ i \in 1..Len(MACHINES) |-> DefaultEntry ] ]
  /\ submitted = FALSE /\ rows = << >> /\ validation_errors = << >>
  /\ fetched = << >> /\ requests = << >> /\ shown = << >> /\ sessions = << >>
  /\ display_order = << >> /\ regex_variants = << >> /\ page_text = << >>
  /\ fuzzy_threshold = DefaultThreshold /\ fuzz = NoFuzz /\ fuzzy_best = << >>
  /\ page_to_machine = << >>
  /\ IdleFlexing /\ IdleRenorm /\ IdleCataloguing /\ IdleExcel /\ IdleHeading /\ IdleSync /\ IdleWeek /\ IdlePort

\* lines 53-55, 75-101: the user fills the widgets of the form
FillForm ==
  /\ pc = "form"
  /\ \E e \in Entries : entry' = e
  /\ pc' = "filled"
  /\ UNCHANGED << remote, submitted, rows, validation_errors, fetched, requests, shown, sessions,
                  beside_form >>

\* lines 180-183: the session_state entries are reset after a success
Cleared(e) == [ e EXCEPT !.machines = [ i \in 1..Len(MACHINES) |-> DefaultEntry ] ]

\* lines 72-115, 152-165: the run in which the submit button was pressed, up to
\* the answer to its GET
Submit ==
  /\ pc = "filled"
  /\ submitted' = TRUE
  /\ rows' = FormRows(entry)
  /\ validation_errors' = ValidationErrors(entry)
  /\ IF validation_errors' # << >>
     THEN \* lines 154-156
          /\ pc' = "ran"
          /\ shown' = << "error", validation_errors' >>
          /\ UNCHANGED << fetched, requests >>
     ELSE \E get \in GetStatuses(remote) :
          LET got == fetch_github_file(get, remote)
          IN  IF "raise" \in DOMAIN got
              THEN \* lines 130, 185-186
                   /\ pc' = "ran"
                   /\ requests' = << [ method |-> "GET" ] >>
                   /\ shown' = << "github_error" >>
                   /\ UNCHANGED fetched
              ELSE /\ pc' = "fetched"
                   /\ fetched' = got
                   /\ requests' = << [ method |-> "GET" ] >>
                   /\ UNCHANGED shown
  /\ UNCHANGED << remote, entry, sessions, beside_form >>

\* what another session of the form enters
OtherEntry == CHOOSE e \in PriorEntries : e.machines[1].notes = << >>

\* between the GET (line 122) and the PUT (line 144) of the run another writer
\* commits the file: its rows are added to the file as it is then
OtherCommit ==
  /\ pc = "fetched"
  /\ remote.sha = fetched.sha
  /\ remote' =
       Put(remote,
           [ content |-> to_csv(df_combined(remote.content,
                                            df_new(OtherEntry, FormRows(OtherEntry)))) ],
           IF remote.exists THEN 200 ELSE 201)
  /\ UNCHANGED << pc, entry, submitted, rows, validation_errors, fetched, requests, shown,
                  sessions, beside_form >>

\* lines 166-186: the run from the answer to its GET on
Commit ==
  /\ pc = "fetched"
  /\ pc' = "ran"
  /\ LET updated_csv == to_csv(df_combined(fetched.content, df_new(entry, rows)))
         payload == Payload(updated_csv, fetched.sha)
     IN  /\ requests' = Append(requests, payload)
         /\ \E put \in PutStatuses(remote, payload) :
              /\ remote' = Put(remote, payload, put)
              /\ IF CommitOk(put)
                 THEN /\ shown' = << "success" >>
                      /\ entry' = Cleared(entry)
                 ELSE \* lines 145-146, 185-186
                      /\ shown' = << "github_error" >>
                      /\ UNCHANGED entry
  /\ UNCHANGED << submitted, rows, validation_errors, fetched, sessions, beside_form >>

NextForm == FillForm \/ Submit \/ OtherCommit \/ Commit

SpecForm == InitForm /\ [][NextForm]_vars

\* ------------------------------------------------------------------ two sessions of the form

\* what the two sessions enter: different dates and shifts, a note that reads
\* as a missing value, and an entry that fails validation
SessionEntries ==
  { e \in Entries :
      /\ e.machines[6] = [ lbs |-> 5, no_sched |-> FALSE, notes |-> << >> ]
      /\ e.machines[12] = [ lbs |-> 0, no_sched |-> TRUE, notes |-> << >> ]
      /\ e.machines[2].lbs = 5
      /\ e.machines[1] \in { [ lbs |-> 5, no_sched |-> FALSE, notes |-> << "N", "/", "A" >> ],
                             [ lbs |-> 0, no_sched |-> FALSE, notes |-> << >> ] } }

SessionIds == { 1, 2 }

NotFetched == [ content |-> EmptyContent, sha |-> None ]

NoPayload == [ method |-> "none" ]

InitSessions ==
  /\ pc = "sessions"
  /\ remote \in RemoteFiles
  /\ sessions \in [ SessionIds -> { [ pc |-> "filled", entry |-> e, fetched |-> NotFetched,
                                      payload |-> NoPayload, shown |-> << >> ] :
                                    e \in SessionEntries } ]
  /\ entry = << >> /\ submitted = FALSE /\ rows = << >> /\ validation_errors = << >>
  /\ fetched = << >> /\ requests = << >> /\ shown = << >>
  /\ display_order = << >> /\ regex_variants = << >> /\ page_text = << >>
  /\ fuzzy_threshold = DefaultThreshold /\ fuzz = NoFuzz /\ fuzzy_best = << >>
  /\ page_to_machine = << >>
  /\ IdleFlexing /\ IdleRenorm /\ IdleCataloguing /\ IdleExcel /\ IdleHeading /\ IdleSync /\ IdleWeek /\ IdlePort

\* lines 152-165: the run of session s up to the answer to its GET
SessionFetch(s) ==
  /\ pc = "sessions"
  /\ sessions[s].pc = "filled"
  /\ LET e == sessions[s].entry
         errors == ValidationErrors(e)
     IN  IF errors # << >>
         THEN sessions' = [ sessions EXCEPT ![s].pc = "ran",
                                            ![s].shown = << "error", errors >> ]
         ELSE \E get \in GetStatuses(remote) :
              LET got == fetch_github_file(get, remote)
              IN  IF "raise" \in DOMAIN got
                  THEN sessions' = [ sessions EXCEPT ![s].pc = "ran",
                                                     ![s].shown = << "github_error" >> ]
                  ELSE sessions' = [ sessions EXCEPT ![s].pc = "fetched",
                                                     ![s].fetched = got ]
  /\ UNCHANGED << pc, remote, entry, submitted, rows, validation_errors, fetched, requests,
                  shown, beside_form >>

\* lines 166-186: the run of session s from the answer to its GET on
SessionCommit(s) ==
  /\ pc = "sessions"
  /\ sessions[s].pc = "fetched"
  /\ LET e == sessions[s].entry
         got == sessions[s].fetched
         updated_csv == to_csv(df_combined(got.content, df_new(e, FormRows(e))))
         payload == Payload(updated_csv, got.sha)
     IN  \E put \in PutStatuses(remote, payload) :
           /\ remote' = Put(remote, payload, put)
           /\ sessions' = [ sessions EXCEPT
                ![s].pc = "ran",
                ![s].payload = payload,
                ![s].shown = IF CommitOk(put) THEN << "success" >> ELSE << "github_error" >>,
                ![s].entry = IF CommitOk(put) THEN Cleared(e) ELSE e ]
  /\ UNCHANGED << pc, entry, submitted, rows, validation_errors, fetched, requests,
                  shown, beside_form >>

NextSessions == \E s \in SessionIds : SessionFetch(s) \/ SessionCommit(s)

SpecSessions == InitSessions /\ [][NextSessions]_vars

\* ------------------------------------------------------------------ tables to Excel

\* f"Page {pg}"
PageName(pg) ==
  << "P", "a", "g", "e", " " >>
    \o << (<< "0", "1", "2", "3", "4", "5", "6", "7", "8", "9" >>)[pg + 1] >>

\* the class [A-Za-z0-9 _\-#] of sanitize_sheet_name
SheetChar(c) ==
  \/ Ord[c] >= 65 /\ Ord[c] <= 90
  \/ Ord[c] >= 97 /\ Ord[c] <= 122
  \/ IsDigit(c)
  \/ c \in { " ", "_", "-", "#" }

\* sanitize_sheet_name(name), build_prod_logs.py:221-223
sanitize_sheet_name(name) ==
  LET s == Strip([ i \in 1..Len(name) |-> IF SheetChar(name[i]) THEN name[i] ELSE "_" ])
  IN  IF s # << >> THEN SubSeq(s, 1, IF Len(s) < 31 THEN Len(s) ELSE 31)
      ELSE << "S", "h", "e", "e", "t" >>

\* A table is kept as the pages of its boundingRegions and the DataFrame
\* table_to_dataframe makes of it, a DataFrame as len(df) and len(df.columns).
\* df.empty
Empty(df) == df.len = 0 \/ df.cols = 0

\* build_prod_logs_append.py:200-201: the page of a table
TablePage(tbl) ==
  IF tbl.pgs # {} THEN CHOOSE p \in tbl.pgs : \A q \in tbl.pgs : p <= q ELSE 1

\* build_prod_logs_append.py:208-209: the sheet of a table
SheetOf(page_map, page) == sanitize_sheet_name(Get(page_map, page, PageName(page)))

\* build_prod_logs_append.py:213: the state of a sheet not seen before;
\* first_header_cols is << >> for None and << n >> for the int n
NewSheetState == [ startrow |-> 0, first_header_cols |-> << >> ]

\* build_prod_logs_append.py:226: include_header; the mutant below writes the
\* header with every table
IncludeHeaderAlways(st) == TRUE

IncludeHeader(st) == st.startrow = 0

\* to_excel(writer, sheet_name=sheet, ...): the cells of the block are written to
\* the sheet of that name, which is created if the workbook has none
ToExcel(book, sheet, block) ==
  IF sheet \in DOMAIN book
  THEN [ book EXCEPT ![sheet] = Append(@, block) ]
  ELSE (sheet :> << block >>) @@ book

\* pd.DataFrame().to_excel(writer, index=False, sheet_name=sheet): no cells
Ensure(book, sheet) ==
  IF sheet \in DOMAIN book THEN book ELSE (sheet :> << >>) @@ book

\* build_prod_logs_append.py:242: rows_written; the mutant below leaves the
\* header row out of the count
RowsWrittenNoHeader(df, include_header) == df.len

RowsWritten(df, include_header) == df.len + (IF include_header THEN 1 ELSE 0)

\* build_prod_logs_append.py:198-243: one pass of the loop over the tables
AppendStep(tbl, idx, page_map, state, book) ==
  LET df == tbl.df
      sheet == SheetOf(page_map, TablePage(tbl))
      st0 == IF sheet \in DOMAIN state THEN state[sheet] ELSE NewSheetState
      st == IF st0.first_header_cols = << >>
            THEN [ st0 EXCEPT !.first_header_cols = << df.cols >> ]
            ELSE st0
      include_header == IncludeHeader(st)
      ensured == IF include_header /\ st.startrow = 0 THEN Ensure(book, sheet) ELSE book
      rows_written == RowsWritten(df, include_header)
  IN  IF Empty(df)
      THEN [ sheet_state |-> state, workbook |-> book ]
      ELSE [ sheet_state |->
               (sheet :> [ st EXCEPT !.startrow = @ + rows_written + 1 ]) @@ state,
             workbook |->
               ToExcel(ensured, sheet,
                       [ startrow |-> st.startrow, header |-> include_header,
                         len |-> df.len, cols |-> df.cols, table |-> idx,
                         page |-> TablePage(tbl) ]) ]

\* build_prod_logs.py:205-219: collect_tables_by_page, page -> DataFrames in order
PagesOf(tbl) == IF tbl.pgs # {} THEN tbl.pgs ELSE { 1 }

RECURSIVE FramesOn(_, _)
FramesOn(tbls, pg) ==
  IF tbls = << >> THEN << >>
  ELSE (IF pg \in PagesOf(Head(tbls)) THEN << Head(tbls).df >> ELSE << >>)
       \o FramesOn(Tail(tbls), pg)

collect_tables_by_page(tbls) ==
  [ pg \in UNION { PagesOf(tbls[i]) : i \in 1..Len(tbls) } |-> FramesOn(tbls, pg) ]

\* build_prod_logs.py:249: sorted(page_tables.keys())[:3]
selected_pages(page_tables) ==
  LET keys == SortedKeys(DOMAIN page_tables)
  IN  SubSeq(keys, 1, IF Len(keys) < 3 THEN Len(keys) ELSE 3)

NotEmpty(df) == ~ Empty(df)

\* build_prod_logs.py:261-265: the tables of a page, each with its header, one
\* below the other from startrow on
RECURSIVE WriteFrames(_, _, _, _, _)
WriteFrames(book, sheet, dfs, startrow, pg) ==
  IF dfs = << >> THEN book
  ELSE WriteFrames(ToExcel(book, sheet,
                           [ startrow |-> startrow, header |-> TRUE,
                             len |-> Head(dfs).len, cols |-> Head(dfs).cols,
                             page |-> pg ]),
                   sheet, Tail(dfs), startrow + Head(dfs).len + 2, pg)

\* build_prod_logs.py:255-265: one pass of the loop over selected_pages
TabStep(pg, page_tables, page_map, book) ==
  LET sheet_name == SheetOf(page_map, pg)
      dfs == SelectSeq(page_tables[pg], NotEmpty)
  IN  IF dfs = << >>
      THEN ToExcel(book, sheet_name,
                   [ startrow |-> 0, header |-> TRUE, len |-> 1, cols |-> 1, page |-> pg ])
      ELSE WriteFrames(Ensure(book, sheet_name), sheet_name, dfs, 0, pg)

\* ------------------------- what the writers are given -------------------------

MaxTables == 3

\* DataFrames: one without rows, two with rows and different numbers of columns
DataFrames == { [ len |-> 0, cols |-> 2 ], [ len |-> 1, cols |-> 2 ], [ len |-> 2, cols |-> 3 ] }

\* boundingRegions: none, page 2, pages 1 and 2
Regions == { {}, { 2 }, { 1, 2 } }

TableSeqs ==
  UNION { [ 1..n -> [ pgs : Regions, df : DataFrames ] ] : n \in 0..MaxTables }

\* the documents: two pages naming the same machine, two pages naming different
\* machines, and a page without text before a page naming a machine
Docs ==
  { (1 :> T_Pc2 @@ 2 :> T_Pc2),
    (1 :> T_Pc2 @@ 2 :> T_DieCutter),
    (1 :> T_Empty @@ 2 :> T_Pc2) }

\* main: the catalog, and the machine detected for the pages of each document
Detected ==
  [ d \in Docs |->
      detect_machine_per_page(NoFuzz, d, build_machine_catalog.display_order,
                              build_machine_catalog.regex_variants, DefaultThreshold) ]

InitExcel(start) ==
  /\ pc = start
  /\ display_order = build_machine_catalog.display_order
  /\ regex_variants = build_machine_catalog.regex_variants
  /\ page_text \in Docs
  /\ fuzzy_threshold = DefaultThreshold
  /\ fuzz = NoFuzz
  /\ fuzzy_best = << >>
  /\ page_to_machine = Detected[page_text]
  /\ t_idx = 0 /\ sheet_state = << >> /\ workbook = << >>
  /\ IdleFlexing /\ IdleRenorm /\ IdleCataloguing /\ IdleForm /\ IdleHeading /\ IdleSync /\ IdleWeek /\ IdlePort

\* build_prod_logs_append.py main, at the call of append_tables_by_machine
InitAppend == InitExcel("append") /\ tables \in TableSeqs

\* build_prod_logs_append.py:198-243: the loop takes the next table
AppendTable ==
  /\ pc = "append"
  /\ t_idx < Len(tables)
  /\ LET r == AppendStep(tables[t_idx + 1], t_idx, page_to_machine, sheet_state, workbook)
     IN  /\ sheet_state' = r.sheet_state
         /\ workbook' = r.workbook
  /\ t_idx' = t_idx + 1
  /\ UNCHANGED << pc, tables, beside_excel >>

\* build_prod_logs_append.py:197, 245: the writer is closed after the last table
CloseAppend ==
  /\ pc = "append"
  /\ t_idx = Len(tables)
  /\ pc' = "written"
  /\ UNCHANGED << excel, beside_excel >>

NextAppend == AppendTable \/ CloseAppend

SpecAppend == InitAppend /\ [][NextAppend]_vars

\* boundingRegions for the three-tab writer: also a table on pages 3 and 4
TabRegions == Regions \cup { { 3, 4 } }

TabFrames == { [ len |-> 0, cols |-> 2 ], [ len |-> 2, cols |-> 3 ] }

TabTableSeqs ==
  UNION { [ 1..n -> [ pgs : TabRegions, df : TabFrames ] ] : n \in 0..MaxTables }

\* build_prod_logs.py main, at line 248
InitTabs == InitExcel("tabs") /\ tables \in TabTableSeqs

\* build_prod_logs.py:252-253: no page carries a table
WriteNoTables ==
  /\ pc = "tabs"
  /\ selected_pages(collect_tables_by_page(tables)) = << >>
  /\ workbook' = ToExcel(workbook, << "N", "o", " ", "T", "a", "b", "l", "e", "s" >>,
                         [ startrow |-> 0, header |-> TRUE, len |-> 1, cols |-> 1,
                           page |-> 0 ])
  /\ pc' = "written"
  /\ UNCHANGED << tables, t_idx, sheet_state, beside_excel >>

\* build_prod_logs.py:255-265: the loop takes the next selected page
WritePage ==
  /\ pc = "tabs"
  /\ LET page_tables == collect_tables_by_page(tables)
         selected == selected_pages(page_tables)
     IN  /\ t_idx < Len(selected)
         /\ workbook' = TabStep(selected[t_idx + 1], page_tables, page_to_machine, workbook)
  /\ t_idx' = t_idx + 1
  /\ UNCHANGED << pc, tables, sheet_state, beside_excel >>

\* build_prod_logs.py:251, 267: the writer is closed after the last page
CloseTabs ==
  /\ pc = "tabs"
  /\ LET selected == selected_pages(collect_tables_by_page(tables))
     IN  selected # << >> /\ t_idx = Len(selected)
  /\ pc' = "written"
  /\ UNCHANGED << excel, beside_excel >>

NextTabs == WriteNoTables \/ WritePage \/ CloseTabs

SpecTabs == InitTabs /\ [][NextTabs]_vars

\* ------------------------------------------------------------------ table_to_dataframe

\* str(n) of a count
Str(n) == << (<< "0", "1", "2", "3", "4", "5", "6", "7", "8", "9" >>)[n + 1] >>

\* seen.get(h2, 0)
SeenGet(seen, h2) == IF h2 \in DOMAIN seen THEN seen[h2] ELSE 0

\* build_prod_logs.py:187-194: the loop over the header cells from cell i on
RECURSIVE UniqueFrom(_, _, _)
UniqueFrom(hs, i, seen) ==
  IF i > Len(hs) THEN << >>
  ELSE LET h2 == IF hs[i] # << >> THEN hs[i] ELSE << "c", "o", "l" >>
           n == SeenGet(seen, h2) + 1
           seen2 == (h2 :> n) @@ seen
       IN  << IF n > 1 THEN h2 \o << "_" >> \o Str(n) ELSE h2 >>
             \o UniqueFrom(hs, i + 1, seen2)

\* build_prod_logs.py:186-194: cols
UniqueHeaders(hs) == UniqueFrom(hs, 1, << >>)

\* build_prod_logs.py:196-203: the columns left after the fully-empty ones are dropped
RECURSIVE KeptCols(_, _, _)
KeptCols(names, empty, i) ==
  IF i > Len(names) THEN << >>
  ELSE (IF empty[i] THEN << >> ELSE << names[i] >>) \o KeptCols(names, empty, i + 1)

\* table_to_dataframe(tbl), build_prod_logs.py:185-203: the column names of the
\* DataFrame returned for a header row and a body
table_to_dataframe(hs, empty) == KeptCols(UniqueHeaders(hs), empty, 1)

MaxCols == 3

\* header cells: empty, plain, and names that end in '_2' already
HeaderCells ==
  { << >>, << "a" >>, << "a", "_", "2" >>, << "c", "o", "l", "_", "2" >>, << "b" >> }

\* the header row is the first row with a non-empty cell (lines 177-181)
Headers ==
  { hs \in UNION { [ 1..n -> HeaderCells ] : n \in 1..MaxCols } :
      \E i \in 1..Len(hs) : hs[i] # << >> }

InitHeading ==
  /\ pc = "grid"
  /\ header \in Headers
  /\ empty_cols \in [ 1..Len(header) -> BOOLEAN ]
  /\ cols = << >>
  /\ display_order = << >> /\ regex_variants = << >> /\ page_text = << >>
  /\ fuzzy_threshold = DefaultThreshold /\ fuzz = NoFuzz /\ fuzzy_best = << >>
  /\ page_to_machine = << >>
  /\ IdleFlexing /\ IdleRenorm /\ IdleCataloguing /\ IdleForm /\ IdleExcel /\ IdleSync /\ IdleWeek /\ IdlePort

\* table_to_dataframe is called on the table
ToDataFrame ==
  /\ pc = "grid"
  /\ cols' = table_to_dataframe(header, empty_cols)
  /\ pc' = "frame"
  /\ UNCHANGED << header, empty_cols, beside_heading >>

NextHeading == ToDataFrame

SpecHeading == InitHeading /\ [][NextHeading]_vars

\* ------------------------------------------------------------------ append_to_excel

\* A row of the sheet or of the CSV is kept as its key (Machine Name, Date, Shift,
\* as the strings astype(str) makes of them) and one other column, whose value
\* may be missing ("NaN").
KeyJenny == [ machine |-> "Jenny", date |-> "2025-09-02", shift |-> "Shift 1" ]

KeyPc1 == [ machine |-> "PC1", date |-> "2025-09-01", shift |-> "Shift 2" ]

Keys == { KeyJenny, KeyPc1 }

\* the place of a key when rows are ordered by Machine Name, Date, Shift (the
\* order of an outer merge on UNIQUE_KEY)
MergeRank == [ k \in Keys |-> IF k = KeyJenny THEN 1 ELSE 2 ]

\* the place of a key when rows are ordered by Date, Shift, Machine Name (line 51)
SortRank == [ k \in Keys |-> IF k = KeyPc1 THEN 1 ELSE 2 ]

\* the rows of a sequence with key k, in order
RECURSIVE WithKey(_, _)
WithKey(rs, k) ==
  IF rs = << >> THEN << >>
  ELSE (IF Head(rs).key = k THEN << Head(rs) >> ELSE << >>) \o WithKey(Tail(rs), k)

\* line 36: merged[col].combine_first(merged[col_old])
CombineFirst(new, old) == IF new # "NaN" THEN new ELSE old

\* lines 30, 34-37: the rows of the outer merge with key k, the columns combined:
\* every pair of a sheet row and a CSV row, or the rows of the one side alone
RECURSIVE Pairs(_, _)
Pairs(olds, news) ==
  IF olds = << >> THEN << >>
  ELSE [ j \in 1..Len(news) |->
           [ key |-> Head(olds).key, val |-> CombineFirst(news[j].val, Head(olds).val) ] ]
       \o Pairs(Tail(olds), news)

MergedKey(existing_df, csv_df, k) ==
  LET olds == WithKey(existing_df, k)
      news == WithKey(csv_df, k)
  IN  IF news = << >> THEN olds
      ELSE IF olds = << >> THEN news
      ELSE Pairs(olds, news)

\* keys in the order of rank
RECURSIVE ByRank(_, _)
ByRank(ks, rank) ==
  IF ks = {} THEN << >>
  ELSE LET k == CHOOSE x \in ks : \A y \in ks : rank[x] <= rank[y]
       IN  << k >> \o ByRank(ks \ { k }, rank)

RECURSIVE Concat(_, _, _)
Concat(existing_df, csv_df, ks) ==
  IF ks = << >> THEN << >>
  ELSE MergedKey(existing_df, csv_df, Head(ks)) \o Concat(existing_df, csv_df, Tail(ks))

KeysOf(rs) == { rs[i].key : i \in 1..Len(rs) }

\* lines 30-37: merged, before the duplicates are dropped
Merged(existing_df, csv_df) ==
  Concat(existing_df, csv_df, ByRank(KeysOf(existing_df) \cup KeysOf(csv_df), MergeRank))

\* line 45: drop_duplicates(subset=UNIQUE_KEY, keep="last"); the mutant below
\* keeps the first row of every key and the repeated rows after it
KeepRepeated(rs) ==
  IF rs = << >> THEN << >> ELSE rs

DropDuplicates(rs) ==
  LET last(i) == \A j \in (i + 1)..Len(rs) : rs[j].key # rs[i].key
  IN  IF rs = << >> THEN << >>
      ELSE LET idx == { i \in 1..Len(rs) : last(i) }
               seq == SortedKeys(idx)
           IN  [ n \in 1..Len(seq) |-> rs[seq[n]] ]

\* line 51: sort_values(by=["Date", "Shift", "Machine Name"]); rows of one key
\* stay together
SortValues(rs) == Concat(rs, << >>, ByRank(KeysOf(rs), SortRank))

\* lines 48-49: the number of rows of the inner merge on UNIQUE_KEY
RECURSIVE OverlapPairs(_, _)
OverlapPairs(existing_df, csv_df) ==
  IF existing_df = << >> THEN 0
  ELSE Len(WithKey(csv_df, Head(existing_df).key)) + OverlapPairs(Tail(existing_df), csv_df)

\* append_or_update_rows(), append_to_excel.py:12-76: the sheet written back, the
\* counts of the summary, and the value returned
append_or_update_rows(existing_df, csv_df) ==
  LET merged == Merged(existing_df, csv_df)
      before == Len(existing_df)
      after == Len(merged)
      new_count == IF after - before > 0 THEN after - before ELSE 0
      update_count == OverlapPairs(existing_df, csv_df)
  IN  [ sheet |-> SortValues(DropDuplicates(merged)),
        new_count |-> new_count,
        update_count |-> update_count,
        changed |-> ~ (new_count = 0 /\ update_count = 0) ]

MaxSheetRows == 2

MaxCsvRows == 2

\* the rows of the sheet (the program wrote them: no value is missing) and of the CSV
SheetRows == [ key : Keys, val : { "100.0", "250.0" } ]

CsvRows == [ key : Keys, val : { "100.0", "250.0", "NaN" } ]

InitSync ==
  /\ pc = "start"
  /\ ws \in UNION { [ 1..n -> SheetRows ] : n \in 0..MaxSheetRows }
  /\ csv \in UNION { [ 1..n -> CsvRows ] : n \in 0..MaxCsvRows }
  /\ ws_before = << >>
  /\ summary = << >>
  /\ display_order = << >> /\ regex_variants = << >> /\ page_text = << >>
  /\ fuzzy_threshold = DefaultThreshold /\ fuzz = NoFuzz /\ fuzzy_best = << >>
  /\ page_to_machine = << >>
  /\ IdleFlexing /\ IdleRenorm /\ IdleCataloguing /\ IdleForm /\ IdleExcel /\ IdleHeading /\ IdleWeek /\ IdlePort

\* the nightly run: append_or_update_rows() on the sheet and the CSV as they are;
\* a second run finds the sheet the first one wrote and the same CSV
Sync ==
  /\ pc \in { "start", "once" }
  /\ LET r == append_or_update_rows(ws, csv)
     IN  /\ ws' = r.sheet
         /\ summary' = [ new_count |-> r.new_count, update_count |-> r.update_count,
                         changed |-> r.changed ]
  /\ ws_before' = ws
  /\ pc' = IF pc = "start" THEN "once" ELSE "twice"
  /\ UNCHANGED << csv, beside_sync >>

NextSync == Sync

SpecSync == InitSync /\ [][NextSync]_vars

\* ------------------------------------------------------------------ prod_scheduler, week window

\* Days are counted from a Monday: day 0, 7, 14 are Mondays.
\* today_dt.weekday()
Weekday(d) == d % 7

\* lines 166-170: start_of_week, end_of_week, end_of_window
StartOfWeek(now) == now - Weekday(now)

EndOfWindow(now, following) == StartOfWeek(now) + 4 + (IF following THEN 7 ELSE 0)

\* lines 173-176: week_df
InWindow(o, now, following) ==
  o.date >= StartOfWeek(now) /\ o.date <= EndOfWindow(now, following)

\* line 179: past_due_df
PastDue(o, now) == o.date < now

RECURSIVE SumWeights(_)
SumWeights(S) ==
  IF S = {} THEN 0
  ELSE LET o == CHOOSE x \in S : TRUE IN o.weight + SumWeights(S \ { o })

\* lines 183-192: carryover_map and carryover_orders_map of one machine
Late(df, machine, now) == { o \in df : PastDue(o, now) /\ o.machine = machine }

Carryover(df, machine, now) == SumWeights(Late(df, machine, now))

CarryoverOrders(df, machine, now) ==
  Cardinality({ o.order : o \in Late(df, machine, now) })

\* lines 196-215: the carry df of one machine, dated today: one per late order,
\* each with an even share of the weight; "from" keeps the orders a row stands for
CarryRows(df, machine, now) ==
  LET n == CarryoverOrders(df, machine, now)
  IN  { [ order |-> << "late", machine, i >>, machine |-> machine, date |-> now,
          weight |-> Carryover(df, machine, now) \div n,
          from |-> { o.order : o \in Late(df, machine, now) } ] : i \in 1..n }

\* lines 173-176, 215: week_df with the carry df
WeekRows(df, now, following) ==
  { [ order |-> << "order", o.machine, o.order >>, machine |-> o.machine, date |-> o.date,
      weight |-> o.weight, from |-> { o.order } ] :
      o \in { x \in df : InWindow(x, now, following) } }
  \cup UNION { CarryRows(df, m, now) : m \in { o.machine : o \in df } }

\* lines 218-231: week_summary, (machine, date) -> weight, order_count; "from"
\* keeps the orders whose weight is in the row
WeekSummary(df, now, following) ==
  LET wk == WeekRows(df, now, following)
  IN  [ md \in { << r.machine, r.date >> : r \in wk } |->
          LET grp == { r \in wk : r.machine = md[1] /\ r.date = md[2] }
          IN  [ extended_weight |-> SumWeights(grp),
                order_count |-> Cardinality({ r.order : r \in grp }),
                from |-> UNION { r.from : r \in grp } ] ]

MaxOrders == 2

Machines == { "PC1", "Jenny" }

\* today: a Monday, a Wednesday, a Friday, a Saturday
Todays == { 7, 9, 11, 12 }

\* expected completion dates: the Friday before, Monday, Wednesday and Friday of
\* the week of today, Wednesday of the week after
OrderDates == { 4, 7, 9, 11, 16 }

\* the rows of the query: order i has weight 12 * i
OrderRows ==
  UNION { { { [ order |-> i, machine |-> f[i].machine, date |-> f[i].date,
                weight |-> 12 * i ] : i \in 1..n } :
            f \in [ 1..n -> [ machine : Machines, date : OrderDates ] ] } :
          n \in 0..MaxOrders }

InitWeek ==
  /\ pc = "query"
  /\ today \in Todays
  /\ orders \in OrderRows
  /\ add_following_week = FALSE
  /\ week_summary = << >>
  /\ display_order = << >> /\ regex_variants = << >> /\ page_text = << >>
  /\ fuzzy_threshold = DefaultThreshold /\ fuzz = NoFuzz /\ fuzzy_best = << >>
  /\ page_to_machine = << >>
  /\ IdleFlexing /\ IdleRenorm /\ IdleCataloguing /\ IdleForm /\ IdleExcel /\ IdleHeading /\ IdleSync /\ IdlePort

\* lines 157-231: a run of the script, with the toggle as the user set it
WeekWindow ==
  /\ pc = "query"
  /\ \E following \in BOOLEAN :
       /\ add_following_week' = following
       /\ week_summary' = WeekSummary(orders, today, following)
  /\ pc' = "table"
  /\ UNCHANGED << today, orders, beside_week >>

NextWeek == WeekWindow

SpecWeek == InitWeek /\ [][NextWeek]_vars

\* ------------------------------------------------------------------ both files

\* Texts of the pages of a longer document given to both files: one with a regex
\* hit, one left to the fuzzy pass.
PortTexts == { T_Pc2, T_Cuter1 }

\* the documents given to both files: one page with any text, or up to MaxPages
\* pages with texts of PortTexts
PortPageTexts ==
  [ { 1 } -> Texts ] \cup UNION { [ 1..n -> PortTexts ] : n \in 0..MaxPages }

\* Both files run on the same inputs: the catalog of each (or one catalog passed
\* to both), one document, one threshold, one behaviour of fuzz.WRatio.
InitPort ==
  /\ pc = "start"
  /\ fuzzy_threshold \in Thresholds
  /\ display_order = << >>
  /\ regex_variants = << >>
  /\ page_text = << >>
  /\ fuzz = NoFuzz
  /\ fuzzy_best = << >>
  /\ page_to_machine = << >>
  /\ port_display_order = << >>
  /\ port_regex_variants = << >>
  /\ port_page_to_machine = << >>
  /\ port_raised = FALSE
  /\ port_fuzzy_best = << >>
  /\ IdleFlexing /\ IdleRenorm /\ IdleCataloguing /\ IdleForm /\ IdleExcel /\ IdleHeading /\ IdleSync /\ IdleWeek

\* main of each file: display_order, regex_variants = build_machine_catalog()
\* (build_prod_logs.py:238, build_prod_logs_append.py:256)
BuildBoth ==
  /\ pc = "start"
  /\ display_order' = build_machine_catalog.display_order
  /\ regex_variants' = build_machine_catalog.regex_variants
  /\ port_display_order' = build_machine_catalog_append.display_order
  /\ port_regex_variants' = build_machine_catalog_append.regex_variants
  /\ pc' = "catalog"
  /\ UNCHANGED << page_text, fuzzy_threshold, fuzz, fuzzy_best, page_to_machine,
                  port_page_to_machine, port_raised, port_fuzzy_best,
                  beside_detection_port >>

\* a caller passes one catalog of its own to both functions
SupplyBoth ==
  /\ pc = "start"
  /\ \E c \in CallerCatalogs :
       /\ display_order' = c.display_order
       /\ regex_variants' = c.regex_variants
       /\ port_display_order' = c.display_order
       /\ port_regex_variants' = c.regex_variants
  /\ pc' = "catalog"
  /\ UNCHANGED << page_text, fuzzy_threshold, fuzz, fuzzy_best, page_to_machine,
                  port_page_to_machine, port_raised, port_fuzzy_best,
                  beside_detection_port >>

\* main of each file: per_page_text = page_text_from_lines(ar)
ReadBoth ==
  /\ pc = "catalog"
  /\ page_text' \in PortPageTexts
  /\ pc' = "pages"
  /\ UNCHANGED << display_order, regex_variants, fuzzy_threshold, fuzz, fuzzy_best,
                  page_to_machine, port, beside_detection_port >>

\* the call of the second file: it raises, the ValueError coming before the first
\* log of a fuzzy pass, or it returns page_to_machine, having logged the fuzzy pass
CallAppend(fz) ==
  IF RaisesAppend(page_text, port_display_order, port_regex_variants)
  THEN /\ port_raised' = TRUE
       /\ port_fuzzy_best' = << >>
       /\ port_page_to_machine' = << >>
  ELSE /\ port_raised' = FALSE
       /\ port_fuzzy_best' =
            fuzzy_log_append(fz, page_text, port_display_order, port_regex_variants)
       /\ port_page_to_machine' =
            detect_machine_per_page_append(fz, page_text, port_display_order,
                                           port_regex_variants, fuzzy_threshold)

\* both calls of detect_machine_per_page return
DetectBoth ==
  /\ pc = "pages"
  /\ LET rs == regex_stage(page_text, display_order, regex_variants)
     IN  /\ ~Raises(rs, page_text, display_order, regex_variants)
         /\ \E fz \in Behaviours(page_text) :
              /\ fuzz' = fz
              /\ fuzzy_best' = fuzzy_log(fz, rs, page_text, display_order, regex_variants)
              /\ page_to_machine' =
                   fuzzy_stage(fz, rs, page_text, display_order, regex_variants,
                               fuzzy_threshold)
              /\ CallAppend(fz)
  /\ pc' = "done"
  /\ UNCHANGED << display_order, regex_variants, page_text, fuzzy_threshold,
                  port_display_order, port_regex_variants, beside_detection_port >>

\* the call of the first file ends in the ValueError of line 147 (line 128 of the
\* second file)
DetectBothRaises ==
  /\ pc = "pages"
  /\ Raises(regex_stage(page_text, display_order, regex_variants),
            page_text, display_order, regex_variants)
  /\ CallAppend(NoFuzz)
  /\ pc' = "error"
  /\ UNCHANGED << detection, port_display_order, port_regex_variants,
                  beside_detection_port >>

NextPort == BuildBoth \/ SupplyBoth \/ ReadBoth \/ DetectBoth \/ DetectBothRaises

SpecPort == InitPort /\ [][NextPort]_vars

\* ------------------------------------------------------------------ claims

\* the call has returned
Done == pc = "done"

\* the catalog in use is the one build_machine_catalog returns
Built ==
  /\ display_order = build_machine_catalog.display_order
  /\ regex_variants = build_machine_catalog.regex_variants

\* the positions in display_order of the names with a pattern found in the page's
\* raw text
Hits(pg) ==
  { i \in 1..Len(display_order) :
      AnyPatternMatches(regex_variants, display_order[i], Raw(page_text[pg])) }

\* the least element of a non-empty set of numbers
Min(S) == CHOOSE x \in S : \A y \in S : x <= y

\* the page's normalized text
Norm(pg) == normalize(Raw(page_text[pg]))

\* the fuzzy score of the i-th display name on the page, under the behaviour of the
\* library seen in the call
ScoreOf(i, pg) == Score(fuzz, regex_variants, display_order[i], Norm(pg))

\* C1: when patterns of two or more display names match a page's raw text, the page
\* is assigned the matching name that comes first in display_order, wherever the
\* matches are in the text and however many patterns of each name match.
C1_FirstCatalogNameWins ==
  Done =>
    \A pg \in DOMAIN page_text :
      Cardinality(Hits(pg)) >= 2 =>
        /\ pg \in DOMAIN page_to_machine
        /\ page_to_machine[pg] = display_order[Min(Hits(pg))]

\* a page whose text names Pc2 first and Cutter1 twice after it is assigned Cutter1,
\* the earlier name of the built catalog
C1_Witness ==
  /\ Done /\ Built
  /\ 1 \in DOMAIN page_text /\ page_text[1] = T_PcThenCutter
  /\ Cardinality(Hits(1)) >= 2
  /\ 1 \in DOMAIN page_to_machine /\ page_to_machine[1] = T_Cutter1

\* C2: a page whose raw text is matched by some pattern is decided by the regex pass
\* alone, for every threshold and every score of the other names; the fuzzy pass
\* decides only pages without a regex hit.
C2_RegexBeforeFuzzy ==
  Done =>
    /\ \A pg \in DOMAIN page_text :
         Hits(pg) # {} =>
           /\ pg \in DOMAIN page_to_machine
           /\ page_to_machine[pg] = display_order[Min(Hits(pg))]
           /\ pg \notin DOMAIN fuzzy_best
    /\ \A pg \in DOMAIN fuzzy_best : Hits(pg) = {}

\* a page with a regex hit for A under the built catalog, where another name B
\* scores higher than A, and at least the threshold, in the library's behaviour:
\* the page is assigned A
C2_Witness ==
  /\ Done /\ Built
  /\ \E pg \in DOMAIN page_text :
       /\ Hits(pg) # {}
       /\ pg \in DOMAIN page_to_machine
       /\ \E a, b \in 1..Len(display_order) :
            /\ page_to_machine[pg] = display_order[a]
            /\ ScoreOf(b, pg) > ScoreOf(a, pg)
            /\ ScoreOf(b, pg) >= fuzzy_threshold

\* C3: in the fuzzy pass the candidate is the first display name, in catalog order,
\* that reaches the maximum score.
C3_StableMax ==
  Done =>
    \A pg \in DOMAIN fuzzy_best :
      display_order # << >> =>
        LET top   == Max({ ScoreOf(i, pg) : i \in 1..Len(display_order) })
            first == Min({ i \in 1..Len(display_order) : ScoreOf(i, pg) = top })
        IN  /\ fuzzy_best[pg].disp = display_order[first]
            /\ fuzzy_best[pg].score = top

\* two display names tie at the maximum score, above a third, and the earlier one
\* is the candidate
C3_Witness ==
  /\ Done
  /\ \E pg \in DOMAIN fuzzy_best :
       \E i, j, k \in 1..Len(display_order) :
         /\ i < j
         /\ ScoreOf(i, pg) = ScoreOf(j, pg)
         /\ ScoreOf(k, pg) < ScoreOf(i, pg)
         /\ fuzzy_best[pg].score = ScoreOf(i, pg)
         /\ fuzzy_best[pg].disp = display_order[i]

\* C4: a page without a regex hit whose best score equals fuzzy_threshold is
\* assigned the best name, and one whose best score is one point below it is absent
\* from the result.
C4_ThresholdBoundary ==
  Done =>
    \A pg \in DOMAIN fuzzy_best :
      /\ fuzzy_best[pg].score = fuzzy_threshold /\ display_order # << >> =>
           /\ pg \in DOMAIN page_to_machine
           /\ page_to_machine[pg] = fuzzy_best[pg].disp
      /\ fuzzy_best[pg].score = fuzzy_threshold - 1 => pg \notin DOMAIN page_to_machine

\* one page is accepted with a best score equal to the threshold while another page
\* of the same document, one point below the threshold, is left out
C4_Witness ==
  /\ Done
  /\ \E p, q \in DOMAIN fuzzy_best :
       /\ fuzzy_best[p].score = fuzzy_threshold
       /\ p \in DOMAIN page_to_machine
       /\ fuzzy_best[q].score = fuzzy_threshold - 1
       /\ q \notin DOMAIN page_to_machine

\* C5: with the built catalog of 11 names, the one-page document whose text is a
\* display name D is detected as {1: D}, for every threshold.
C5_SelfMatch ==
  Done /\ Built /\ DOMAIN page_text = { 1 } =>
    /\ Len(display_order) = 11
    /\ page_text[1] \in Range(display_order) =>
         /\ page_to_machine = page_text
         /\ Min(Hits(1)) = CHOOSE i \in 1..Len(display_order) : display_order[i] = page_text[1]

\* the last name of the catalog, Sheeter2, is detected on its own text
C5_Witness ==
  /\ Done /\ Built
  /\ DOMAIN page_text = { 1 } /\ page_text[1] = T_Sheeter2
  /\ page_to_machine = ( 1 :> T_Sheeter2 )

\* C6: the keys of the result are page numbers of the input, every value is a
\* display name of the catalog, and no page is entered with None or an empty string.
C6_ResultShape ==
  Done =>
    /\ DOMAIN page_to_machine \subseteq DOMAIN page_text
    /\ \A pg \in DOMAIN page_to_machine :
         /\ page_to_machine[pg] \in Range(display_order)
         /\ page_to_machine[pg] # None
         /\ page_to_machine[pg] # << >>

\* a document with one page assigned and one page that went through the fuzzy pass
\* and is absent from the result
C6_Witness ==
  /\ Done
  /\ \E p, q \in DOMAIN page_text :
       /\ p \in DOMAIN page_to_machine
       /\ q \in DOMAIN fuzzy_best
       /\ q \notin DOMAIN page_to_machine

\* the strings the fuzzy pass would compare if it took the alternate spellings of a
\* display name
Spellings(disp) == { normalize(v) : v \in RawVariants(disp) }

\* C7: in the fuzzy fallback the score of a display name is the maximum weighted
\* ratio between the normalized page text and each normalized alternate spelling of
\* the name, and the candidate carries the highest such score of all names.
C7_ScoreOverSpellings ==
  Done /\ Built =>
    \A pg \in DOMAIN fuzzy_best :
      LET spelt(i) == Max({ WRatio(fuzz, v, Norm(pg)) : v \in Spellings(display_order[i]) })
      IN  /\ \A i \in 1..Len(display_order) :
               /\ FuzzyOperands(regex_variants, display_order[i]) = Spellings(display_order[i])
               /\ ScoreOf(i, pg) = spelt(i)
          /\ fuzzy_best[pg].score = Max({ spelt(i) : i \in 1..Len(display_order) })

\* the known prefixes of lines 80, 90 and 96
Prefixes ==
  { << "c", "u", "t", "t", "e", "r" >>, << "p", "c" >>,
    << "s", "h", "e", "e", "t", "e", "r" >> }

\* the known prefix a display name starts with, when it also ends in digits
PrefixOf(disp) ==
  { p \in Prefixes : StartsWith(Lower(disp), p) /\ TrailingDigits(Lower(disp)) # << >> }

\* the prefix of disp, as written in the name and in upper case, joined to its
\* number by sep
Joined(disp, sep) ==
  UNION { { SubSeq(disp, 1, Len(p)) \o sep \o TrailingDigits(Lower(disp)),
            Upper(p) \o sep \o TrailingDigits(Lower(disp)) } : p \in PrefixOf(disp) }

PlainSeps == { << >>, << " " >>, << "-" >>, << "_" >> }

HashSeps == { << "#" >>, << " ", "#" >>, << "#", " " >>, << " ", "#", " " >> }

\* the name the regex pass finds in a text, or None
RegexFinds(t) == RegexPass(display_order, regex_variants, t, 1, None)

\* C8 as stated: every prefixed display name has the '#' variants, and 'PC #2',
\* 'SHEETER#1' and 'CUTTER #1' are matched by the regex pass to Pc2, Sheeter1 and
\* Cutter1.
C8_HashVariantsForAll ==
  /\ pc = "catalog" /\ Built =>
       \A i \in 1..Len(display_order) :
         \A sep \in PlainSeps \cup HashSeps :
           \A t \in Joined(display_order[i], sep) : RegexFinds(t) = display_order[i]
  /\ Done /\ Built =>
       \A pg \in DOMAIN page_text :
         /\ page_text[pg] = T_PcHash2 => RegexFinds(T_PcHash2) = T_Pc2
         /\ page_text[pg] = T_SheeterHash1 => RegexFinds(T_SheeterHash1) = T_Sheeter1
         /\ page_text[pg] = T_CutterHash1 => RegexFinds(T_CutterHash1) = T_Cutter1

\* C8: for every display name made of a known prefix and a number n, the regex pass
\* matches to it the prefix (as in the name and in upper case) joined to n by
\* nothing, a space, a hyphen or an underscore. Only the cutter names have variants
\* with a '#' (with and without a space before it): 'CUTTER #1' is matched to
\* Cutter1, while no variant of a pc or sheeter name holds a '#', and 'PC #2' and
\* 'SHEETER#1' get no regex hit and are left to the fuzzy pass.
C8_PrefixVariants ==
  /\ pc = "catalog" /\ Built =>
       \A i \in 1..Len(display_order) :
         LET d == display_order[i]
             cutter == StartsWith(Lower(d), << "c", "u", "t", "t", "e", "r" >>)
         IN  /\ \A sep \in PlainSeps : \A t \in Joined(d, sep) : RegexFinds(t) = d
             /\ \A sep \in HashSeps : \A t \in Joined(d, sep) :
                  RegexFinds(t) = IF cutter THEN d ELSE None
             /\ PrefixOf(d) # {} =>
                  IF cutter
                  THEN Joined(d, << "#" >>) \cup Joined(d, << " ", "#" >>) \subseteq RawVariants(d)
                  ELSE \A v \in RawVariants(d) : "#" \notin Range(v)
  /\ Done /\ Built =>
       \A pg \in DOMAIN page_text :
         /\ page_text[pg] \in { T_PcHash2, T_SheeterHash1 } =>
              /\ Hits(pg) = {}
              /\ pg \in DOMAIN fuzzy_best
         /\ page_text[pg] = T_CutterHash1 =>
              /\ pg \in DOMAIN page_to_machine
              /\ page_to_machine[pg] = T_Cutter1

\* the page 'PC #2' had no regex hit under the built catalog, went through the fuzzy
\* pass and was left out of the result
C8_Witness ==
  /\ Done /\ Built
  /\ 1 \in DOMAIN page_text /\ page_text[1] = T_PcHash2
  /\ Hits(1) = {}
  /\ 1 \in DOMAIN fuzzy_best
  /\ 1 \notin DOMAIN page_to_machine

\* C9: the pattern flex builds from a variant is found, ignoring case and anywhere
\* in the text, in every text that holds the variant's tokens in order with any run
\* (also empty) of spaces, hyphens or underscores between them and optional
\* whitespace around a '#'; it is not found in a text where the letters or digits
\* of a token differ; and '...CUTTER   #1 run log...' yields Cutter1.
C9_FlexMatches ==
  pc = "searched" =>
    /\ expect = "contains" => found
    /\ expect = "differs" => ~found
    /\ text = T_CutterHashLog =>
         RegexPass(build_machine_catalog.display_order,
                   build_machine_catalog.regex_variants, text, 1, None) = T_Cutter1

\* the pattern of a variant with a '#' was found in '...CUTTER   #1 run log...'
C9_Witness ==
  /\ pc = "searched"
  /\ "#" \in Range(variant)
  /\ text = T_CutterHashLog
  /\ expect = "contains"
  /\ found

\* C10: the page text and every compared variant go through the same normalize,
\* and replacing a separator run of either input by another run of '-', '_' or
\* spaces changes neither its normalized form, nor the score of any display name,
\* nor what the fuzzy pass finds on a page it runs on, nor the result when the
\* fuzzy pass decides the page in both calls.
C10_SeparatorInsensitive ==
  pc = "rescored" =>
    /\ \A i \in 1..Len(display_order) :
         FuzzyOperands(reseparated.regex_variants, display_order[i]) =
           FuzzyOperands(regex_variants, display_order[i])
    /\ \A pg \in DOMAIN page_text :
         /\ normalize(Raw(reseparated.page_text[pg])) = Norm(pg)
         /\ \A i \in 1..Len(display_order) :
              Score(fuzz, reseparated.regex_variants, display_order[i],
                    normalize(Raw(reseparated.page_text[pg]))) = ScoreOf(i, pg)
         /\ pg \in DOMAIN fuzzy_best /\ pg \in DOMAIN rescored.best =>
              /\ rescored.best[pg] = fuzzy_best[pg]
              /\ pg \in DOMAIN page_to_machine <=> pg \in DOMAIN rescored.result
              /\ pg \in DOMAIN page_to_machine =>
                   rescored.result[pg] = page_to_machine[pg]

\* the page 'DIE--cuter' was assigned by the fuzzy pass, and again after its "--"
\* was replaced by another run
C10_Witness ==
  /\ pc = "rescored"
  /\ page_text[1] = T_DieCuter
  /\ reseparated.page_text[1] # T_DieCuter
  /\ 1 \in DOMAIN fuzzy_best /\ fuzzy_best[1].score >= fuzzy_threshold
  /\ 1 \in DOMAIN page_to_machine
  /\ 1 \in DOMAIN rescored.best /\ 1 \in DOMAIN rescored.result

\* C11: under the built catalog and every threshold, a page whose text is None,
\* empty or made only of whitespace, hyphens and underscores has no regex hit, does
\* not go through the fuzzy pass and is absent from the result; and the call does
\* not raise.
C11_BlankPageUnassigned ==
  Built =>
    /\ pc # "error"
    /\ Done =>
         \A pg \in DOMAIN page_text :
           Norm(pg) = << >> =>
             /\ Hits(pg) = {}
             /\ pg \notin DOMAIN fuzzy_best
             /\ pg \notin DOMAIN page_to_machine

\* the page ' -_<tab>' was left out under the built catalog with the threshold 0,
\* which every score reaches
C11_Witness ==
  /\ Done /\ Built
  /\ fuzzy_threshold = 0
  /\ DOMAIN page_text = { 1 } /\ page_text[1] = T_Blank
  /\ page_to_machine = << >>

\* C12: with an empty catalog the call returns the empty mapping for every document
\* and every threshold, also 0 and below, and does not raise.
C12_EmptyCatalogEmptyResult ==
  display_order = << >> /\ regex_variants = << >> =>
    /\ pc # "error"
    /\ Done => page_to_machine = << >>

\* with the empty catalog and the threshold -1 the fuzzy pass ran on a page, its best
\* score of -1 reached the threshold, and the result is empty
C12_Witness ==
  /\ Done
  /\ display_order = << >> /\ regex_variants = << >>
  /\ fuzzy_threshold = -1
  /\ \E pg \in DOMAIN fuzzy_best :
       /\ fuzzy_best[pg].disp = None
       /\ fuzzy_best[pg].score >= fuzzy_threshold
  /\ page_to_machine = << >>

\* the catalog has a name, every name is a non-empty string, and no name has an
\* empty pattern list
SoundCatalog ==
  /\ display_order # << >>
  /\ \A i \in 1..Len(display_order) :
       /\ Truthy(display_order[i])
       /\ Get(regex_variants, display_order[i], << display_order[i] >>) # << >>

\* C13 as stated: with a threshold <= 0 and a non-empty catalog every page with
\* non-empty text is assigned a machine.
C13_NonEmptyTextAssigned ==
  Done /\ display_order # << >> /\ fuzzy_threshold <= 0 =>
    \A pg \in DOMAIN page_text :
      Raw(page_text[pg]) # << >> => pg \in DOMAIN page_to_machine

\* C13: with a threshold <= 0 and a catalog with a name, of non-empty names with
\* non-empty pattern lists, every page whose normalized text is non-empty (its text
\* holds a character other than whitespace, '-' and '_') is assigned a machine: the
\* first name with a regex hit, or else the best fuzzy candidate.
C13_LowThresholdAssigns ==
  Done /\ SoundCatalog /\ fuzzy_threshold <= 0 =>
    \A pg \in DOMAIN page_text :
      Norm(pg) # << >> =>
        /\ pg \in DOMAIN page_to_machine
        /\ Hits(pg) # {} => page_to_machine[pg] = display_order[Min(Hits(pg))]
        /\ Hits(pg) = {} =>
             /\ pg \in DOMAIN fuzzy_best
             /\ page_to_machine[pg] = fuzzy_best[pg].disp

\* with the threshold 0 a page without a regex hit was assigned its best candidate,
\* whose score is 0
C13_Witness ==
  /\ Done /\ SoundCatalog
  /\ fuzzy_threshold = 0
  /\ \E pg \in DOMAIN fuzzy_best :
       /\ fuzzy_best[pg].score = 0
       /\ pg \in DOMAIN page_to_machine
       /\ page_to_machine[pg] = fuzzy_best[pg].disp

\* C14: with a threshold above 100 the fuzzy pass assigns nothing: the result holds
\* exactly the pages with a regex hit, each with its first matching name, whatever
\* the fuzzy pass finds; and the call does not raise (for a catalog without an empty
\* pattern list).
C14_HighThresholdRegexOnly ==
  fuzzy_threshold > 100 =>
    /\ SoundCatalog \/ display_order = << >> => pc # "error"
    /\ Done =>
         /\ DOMAIN page_to_machine = { pg \in DOMAIN page_text : Hits(pg) # {} }
         /\ \A pg \in DOMAIN page_to_machine :
              page_to_machine[pg] = display_order[Min(Hits(pg))]
         /\ \A pg \in DOMAIN fuzzy_best : fuzzy_best[pg].score < fuzzy_threshold

\* with the threshold 101 one page was assigned by the regex pass while another,
\* whose best candidate scored 100, was left out
C14_Witness ==
  /\ Done
  /\ fuzzy_threshold = 101
  /\ \E p, q \in DOMAIN page_text :
       /\ Hits(p) # {} /\ p \in DOMAIN page_to_machine
       /\ q \in DOMAIN fuzzy_best /\ fuzzy_best[q].score = 100
       /\ q \notin DOMAIN page_to_machine

\* xs is in ascending order without two equal elements
Ascending(xs) == \A i \in 1..(Len(xs) - 1) : StrLess(xs[i], xs[i + 1])

\* C15: a call of build_machine_catalog returns the 11 display names in their
\* order and, for each, a non-empty, sorted, duplicate-free list of non-empty
\* patterns that holds the pattern of the display name itself; every entry it
\* makes, and the catalog it returns, is the same whatever order each set
\* iterates in, so that any two calls return the same.
C15_CatalogWellFormed ==
  /\ \A k \in 1..Len(catalogs) :
       /\ catalogs[k].display_order = display_names
       /\ DOMAIN catalogs[k].regex_variants \subseteq Range(display_names)
       /\ \A d \in DOMAIN catalogs[k].regex_variants :
            LET rxs == catalogs[k].regex_variants[d]
            IN  /\ rxs # << >>
                /\ Ascending(rxs)
                /\ Range(rxs) = FlexedVariants(d)
                /\ flex(d) \in Range(rxs)
                /\ << >> \notin Range(rxs)
                /\ rxs = build_machine_catalog.regex_variants[d]
  /\ pc = "once" => catalogs = << build_machine_catalog >>

\* the call is sorting the set of Pc1, which iterated in the order Python gave
\* it under PYTHONHASHSEED=0, after the set of Cutter1 was sorted and entered
ObservedOrderListed ==
  /\ pc = "listed"
  /\ T_Cutter1 \in DOMAIN Entered
  /\ set_orders = << << flex(<< "P", "c", " ", "1" >>), flex(<< "P", "C", " ", "1" >>),
                        flex(<< "P", "c", "1" >>), flex(<< "P", "C", "1" >>) >> >>

\* a call returned the catalog
C15_Witness ==
  /\ pc = "once"
  /\ DOMAIN catalogs[1].regex_variants = Range(display_names)
  /\ set_orders = << >>

\* C16: a call of detect_machine_per_page leaves the page texts and the catalog as
\* they were, and the machine assigned to a page (or its absence from the result,
\* and what the fuzzy pass found on it) is the same in every document that holds the
\* page with the same text, whatever the other pages are.
C16_PageLocal ==
  [][ /\ pc = "pages" =>
           /\ page_text' = page_text
           /\ display_order' = display_order
           /\ regex_variants' = regex_variants
      /\ pc' = "rescored" =>
           LET pg == reseparated'.kept
           IN  /\ pg \in DOMAIN page_to_machine' <=> pg \in DOMAIN rescored'.result
               /\ pg \in DOMAIN page_to_machine' =>
                    rescored'.result[pg] = page_to_machine'[pg]
               /\ pg \in DOMAIN fuzzy_best' <=> pg \in DOMAIN rescored'.best
               /\ pg \in DOMAIN fuzzy_best' =>
                    rescored'.best[pg] = fuzzy_best'[pg]
    ]_vars

\* page 2 kept its text and its machine, found by the fuzzy pass, while page 1 was
\* changed and got another machine
C16_Witness ==
  /\ pc = "rescored"
  /\ reseparated.kept = 2
  /\ 2 \in DOMAIN fuzzy_best /\ 2 \in DOMAIN page_to_machine
  /\ rescored.result[2] = page_to_machine[2]
  /\ reseparated.page_text[1] # page_text[1]
  /\ 1 \in DOMAIN page_to_machine /\ 1 \in DOMAIN rescored.result
  /\ rescored.result[1] # page_to_machine[1]


\* ---- the daily-output form

Succeeded == pc = "ran" /\ shown = << "success" >>

\* the file the run committed: the content of its PUT
Committed == requests[Len(requests)].content

\* C17: after every successful submission the committed file consists of all
\* rows of the fetched file, unchanged and in the same order, followed by
\* exactly one new row per machine of MACHINES for the entered date and shift;
\* when the remote file does not exist or is blank, the committed file holds
\* only the new rows and no sha is sent.
C17_AppendOnly ==
  Succeeded =>
    LET old == fetched.content.lines
        new == Committed.lines
    IN  /\ Len(new) = Len(old) + Len(MACHINES)
        /\ \A i \in 1..Len(old) : new[i] = old[i]
        /\ \A i \in 1..Len(MACHINES) :
             /\ new[Len(old) + i].machine = MACHINES[i]
             /\ new[Len(old) + i].date = entry.date
             /\ new[Len(old) + i].shift = entry.shift
        /\ ~ ContentTruthy(fetched.content) =>
             /\ Len(new) = Len(MACHINES)
             /\ "sha" \notin DOMAIN requests[Len(requests)]

\* the machines with neither a non-zero LB value nor the No Schedule box checked
RECURSIVE AffectedFrom(_, _)
AffectedFrom(e, i) ==
  IF i > Len(MACHINES) THEN << >>
  ELSE (IF e.machines[i].lbs # 0 \/ e.machines[i].no_sched THEN << >> ELSE << MACHINES[i] >>)
       \o AffectedFrom(e, i + 1)

Affected(e) == AffectedFrom(e, 1)

\* C20: the form never fetches or commits the remote file when validation
\* fails: a submission sends requests to GitHub only if every machine has a
\* non-zero LB value or its No Schedule box checked; otherwise the run shows
\* an error naming the affected machines and leaves the remote file unchanged.
C20_ValidationGate ==
  [][ /\ requests' # requests => Affected(entry) = << >>
      /\ pc = "filled" /\ Affected(entry) # << >> =>
           /\ requests' = << >>
           /\ shown' = << "error", Affected(entry) >>
           /\ remote' = remote ]_vars

\* a run refused a submission with two machines left at 0 and unchecked, naming
\* them and not a third machine at 0 whose box is checked
C20_Witness ==
  /\ pc = "ran"
  /\ Len(validation_errors) = 2 /\ requests = << >>
  /\ shown = << "error", validation_errors >>
  /\ \E i \in 1..Len(rows) : rows[i].lbs = 0 /\ rows[i].no_sched = << "X" >>


\* ---- tables to Excel

\* the tables before index n (from 0) that are not empty and routed to sheet
RoutedBefore(sheet, n) ==
  { i \in 0..(n - 1) :
      /\ ~ Empty(tables[i + 1].df)
      /\ SheetOf(page_to_machine, TablePage(tables[i + 1])) = sheet }

\* C18: in append_tables_by_machine each sheet receives a header row exactly
\* once, with the first non-empty table routed to it; every later table routed
\* to the sheet is written without a header; a table whose DataFrame is empty
\* is skipped without changing any sheet's state.
C18_HeaderOnce ==
  /\ [](pc \in { "append", "written" } =>
         /\ DOMAIN workbook = DOMAIN sheet_state
         /\ \A sheet \in DOMAIN workbook :
              LET blocks == workbook[sheet]
                  routed == RoutedBefore(sheet, t_idx)
              IN  /\ routed # {}
                  /\ Len(blocks) = Cardinality(routed)
                  /\ blocks[1].header
                  /\ \A i \in routed : blocks[1].table <= i
                  /\ \A j \in 2..Len(blocks) :
                       /\ ~ blocks[j].header
                       /\ blocks[j].table \in routed
                       /\ blocks[j - 1].table < blocks[j].table)
  /\ [][ pc = "append" /\ t_idx < Len(tables) /\ Empty(tables[t_idx + 1].df) =>
           sheet_state' = sheet_state /\ workbook' = workbook ]_vars

\* the first table was empty and skipped, and a sheet then took two tables, one
\* of them with the header
C18_Witness ==
  /\ pc = "written"
  /\ Len(tables) = 3 /\ Empty(tables[1].df)
  /\ \E sheet \in DOMAIN workbook :
       /\ Len(workbook[sheet]) = 2
       /\ workbook[sheet][1].header /\ ~ workbook[sheet][2].header
       /\ workbook[sheet][1].table = 1

\* C19: build_prod_logs.main writes one tab for each of the first three pages
\* that carry tables: tables of different selected pages are never written to
\* the same sheet, also when two selected pages are detected as the same machine.
C19_OneTabPerPage ==
  pc = "written" /\ t_idx > 0 =>
    /\ Cardinality(DOMAIN workbook) = t_idx
    /\ \A sheet \in DOMAIN workbook :
         \A i, j \in 1..Len(workbook[sheet]) :
           workbook[sheet][i].page = workbook[sheet][j].page


\* ---- two sessions of the form

\* the lines session s adds to the file: its form rows, as to_csv writes them
OwnLines(s) ==
  LET e == sessions[s].entry
      sent == sessions[s].payload.content.lines
  IN  SubSeq(sent, Len(sent) - Len(MACHINES) + 1, Len(sent))

\* lines is a run of consecutive lines of the file
HoldsLines(file, lines) ==
  \E k \in 0..(Len(file.content.lines) - Len(lines)) :
    \A i \in 1..Len(lines) : file.content.lines[k + i] = lines[i]

BothRan == \A s \in SessionIds : sessions[s].pc = "ran"

\* both sessions fetched the same version of the file, and both committed
SameVersion ==
  /\ BothRan
  /\ \A s \in SessionIds : sessions[s].payload # NoPayload
  /\ sessions[1].fetched = sessions[2].fetched

\* C21: no lost update: when two sessions fetch the same version of the remote
\* file and both commit, every session that shows the success message has its
\* rows in the final file, and a session whose commit is rejected shows an
\* error and writes nothing.
C21_NoLostUpdate ==
  /\ [](SameVersion =>
          \A s \in SessionIds :
            /\ sessions[s].shown \in { << "success" >>, << "github_error" >> }
            /\ sessions[s].shown = << "success" >> =>
                 /\ HoldsLines(remote, OwnLines(s))
                 /\ remote.content = sessions[s].payload.content)
  /\ [][ \A s \in SessionIds :
           sessions[s].pc = "fetched" /\ sessions'[s].pc = "ran"
             /\ remote' = remote
           => sessions'[s].shown = << "github_error" >> ]_vars
  /\ [][ \A s \in SessionIds :
           sessions[s].pc = "fetched" /\ sessions'[s].shown = << "github_error" >>
           => remote' = remote ]_vars

\* both sessions fetched the missing file, one created it and shows the success,
\* the other was refused and shows the error
C21_Witness ==
  /\ SameVersion
  /\ sessions[1].fetched.sha = None
  /\ sessions[1].shown = << "github_error" >>
  /\ sessions[2].shown = << "success" >>
  /\ remote.content = sessions[2].payload.content


\* r_1 + ... + r_k, the data rows of the blocks of a sheet
RECURSIVE DataRows(_)
DataRows(blocks) ==
  IF blocks = << >> THEN 0 ELSE Head(blocks).len + DataRows(Tail(blocks))

\* the rows a block takes in its sheet, from its start row on
RowsOf(block) == block.len + (IF block.header THEN 1 ELSE 0)

\* C23: in append_tables_by_machine the row ranges written to one sheet never
\* overlap and are separated by exactly one blank row: the start row of a sheet
\* only grows, and after k non-empty tables with r_1..r_k data rows it is
\* r_1 + ... + r_k + k + 1; the state of a sheet is never changed by a table
\* routed to another sheet.
C23_RowRanges ==
  /\ [](pc \in { "append", "written" } =>
          \A sheet \in DOMAIN sheet_state :
            LET blocks == workbook[sheet]
                k == Len(blocks)
            IN  /\ sheet_state[sheet].startrow = DataRows(blocks) + k + 1
                /\ blocks[1].startrow = 0
                /\ \A j \in 1..(k - 1) :
                     blocks[j + 1].startrow = blocks[j].startrow + RowsOf(blocks[j]) + 1)
  /\ [][ pc = "append" /\ t_idx < Len(tables) =>
           \A sheet \in DOMAIN sheet_state :
             /\ sheet_state'[sheet].startrow >= sheet_state[sheet].startrow
             /\ sheet # SheetOf(page_to_machine, TablePage(tables[t_idx + 1])) =>
                  /\ sheet_state'[sheet] = sheet_state[sheet]
                  /\ workbook'[sheet] = workbook[sheet] ]_vars

\* two sheets, one of them with two tables of different lengths below each other
C23_Witness ==
  /\ pc = "written"
  /\ Cardinality(DOMAIN sheet_state) = 2
  /\ \E sheet \in DOMAIN sheet_state :
       /\ Len(workbook[sheet]) = 2
       /\ workbook[sheet][1].len # workbook[sheet][2].len
       /\ sheet_state[sheet].startrow = 6


\* ---- table_to_dataframe

\* C24: table_to_dataframe produces unique headers: for every header row (with
\* repeated names, empty cells, and names that already end in '_2', '_3', ...)
\* the column names of the returned DataFrame are pairwise distinct.
C24_UniqueHeaders ==
  pc = "frame" =>
    \A i, j \in 1..Len(cols) : i # j => cols[i] # cols[j]


\* ---- append_to_excel

Synced == pc \in { "once", "twice" }

\* C25: after append_or_update_rows the sheet holds exactly one row for each
\* distinct (Machine Name, Date, Shift) key of the previous sheet or of the CSV:
\* no existing key is dropped and no key appears twice, also when the CSV or
\* the sheet holds repeated keys.
C25_OneRowPerKey ==
  Synced =>
    /\ KeysOf(ws) = KeysOf(ws_before) \cup KeysOf(csv)
    /\ \A k \in KeysOf(ws) : Len(WithKey(ws, k)) = 1

\* a run on a sheet and a CSV that both repeat a key, the CSV also holding a key
\* the sheet has not
C25_Witness ==
  /\ pc = "once"
  /\ Len(ws_before) = 2 /\ ws_before[1].key = ws_before[2].key
  /\ Len(csv) = 2 /\ csv[1].key = csv[2].key /\ csv[1].key # ws_before[1].key
  /\ Len(ws) = 2

\* the keys the last run added to the sheet
AddedKeys == KeysOf(ws) \ KeysOf(ws_before)

\* the last run added no key and every row of the sheet is a row it had before
NothingChanged == AddedKeys = {} /\ Range(ws) \subseteq Range(ws_before)

\* C26: append_or_update_rows returns False whenever the CSV adds no new key and
\* changes no value of an existing row, in particular on a second run with an
\* unchanged CSV; it returns True only when a row was appended or updated, and
\* the reported new-row count is the number of keys added to the sheet.
C26_ChangedIffChanged ==
  Synced =>
    /\ NothingChanged => ~ summary.changed
    /\ pc = "twice" => ~ summary.changed
    /\ summary.new_count = Cardinality(AddedKeys)


\* ---- prod_scheduler, week window

\* the rows of week_summary that hold the weight of order i
CountedIn(i) == { md \in DOMAIN week_summary : i \in week_summary[md].from }

\* C22: in the week-window table past-due carry-over is added only once: no
\* order's extended weight is counted in more than one (machine, date) row of
\* week_summary, wherever its expected completion date lies relative to today
\* and to the Monday of the current week.
C22_CountedOnce ==
  pc = "table" =>
    \A o \in orders : Cardinality(CountedIn(o.order)) <= 1

\* C27: the two files are equivalent.  build_machine_catalog of
\* build_prod_logs.py and of build_prod_logs_append.py return the same display
\* order and the same pattern lists, and for every document, threshold and
\* behaviour of fuzz.WRatio the two detect_machine_per_page functions end the same
\* way: both raise, or both return the same page-to-machine mapping, having
\* logged the same best name and score for the same pages.
C27_SameResults ==
  /\ pc # "start" =>
       /\ port_display_order = display_order
       /\ port_regex_variants = regex_variants
  /\ pc = "done" =>
       /\ ~port_raised
       /\ port_page_to_machine = page_to_machine
       /\ port_fuzzy_best = fuzzy_best
  /\ pc = "error" => port_raised

\* both files built their catalog and returned a mapping with one page matched by
\* a pattern and one page assigned by the fuzzy pass
C27_Witness ==
  /\ pc = "done"
  /\ port_display_order = display_names_append
  /\ \E p \in DOMAIN port_page_to_machine : p \in DOMAIN port_fuzzy_best
  /\ \E q \in DOMAIN port_page_to_machine : q \notin DOMAIN port_fuzzy_best

====
